---- MODULE Spec2Model ----
(***************************************************************************)
(* SafePI: scan orchestration and validation engine (src/safepi.js).       *)
(*                                                                         *)
(* JavaScript strings on which the code does character-level work (domain  *)
(* names, output paths) are sequences of one-character strings.  Messages  *)
(* that the code only passes around (error reasons) are TLA+ strings.      *)
(* JavaScript values whose type matters (payload fields) are tagged        *)
(* records [t |-> type, v |-> value].                                      *)
(***************************************************************************)
EXTENDS Integers, Sequences, FiniteSets, TLC

(***************************************************************************)
(* Bounds of the model.                                                    *)
(***************************************************************************)
MaxDomains == 2

(***************************************************************************)
(* Characters.                                                             *)
(***************************************************************************)
UpperChars == <<"A", "B", "C", "D", "E", "F", "G", "H", "I", "J", "K", "L", "M",
                "N", "O", "P", "Q", "R", "S", "T", "U", "V", "W", "X", "Y", "Z">>
LowerChars == <<"a", "b", "c", "d", "e", "f", "g", "h", "i", "j", "k", "l", "m",
                "n", "o", "p", "q", "r", "s", "t", "u", "v", "w", "x", "y", "z">>
DigitChars == <<"0", "1", "2", "3", "4", "5", "6", "7", "8", "9">>

Range(s) == {s[i] : i \in 1..Len(s)}

\* the character class [a-zA-Z0-9] of the regular expressions
Alnum == Range(UpperChars) \cup Range(LowerChars) \cup Range(DigitChars)

\* String.prototype.toLowerCase, one character
LowerChar(c) ==
  IF \E i \in 1..Len(UpperChars) : UpperChars[i] = c
  THEN LowerChars[CHOOSE i \in 1..Len(UpperChars) : UpperChars[i] = c]
  ELSE c

\* String.prototype.toLowerCase
toLowerCase(s) == [i \in 1..Len(s) |-> LowerChar(s[i])]

\* String.prototype.includes
includes(s, p) ==
  \E i \in 0..(Len(s) - Len(p)) : SubSeq(s, i + 1, i + Len(p)) = p

(***************************************************************************)
(* isValidDomain (src/safepi.js:720-748).                                  *)
(***************************************************************************)
MaxDomainLength == 253
MaxLabelMiddle == 61

\* the labels of s, split at every "."
RECURSIVE SplitDot(_)
SplitDot(s) ==
  IF \A i \in 1..Len(s) : s[i] # "."
  THEN <<s>>
  ELSE LET k == CHOOSE i \in 1..Len(s) :
                  s[i] = "." /\ \A j \in 1..(i - 1) : s[j] # "."
       IN <<SubSeq(s, 1, k - 1)>> \o SplitDot(SubSeq(s, k + 1, Len(s)))

\* mutant: a label of any length
LabelMatchesAnyLength(l) ==
  /\ Len(l) >= 1
  /\ l[1] \in Alnum
  /\ Len(l) >= 2 =>
       /\ l[Len(l)] \in Alnum
       /\ \A i \in 2..(Len(l) - 1) : l[i] \in Alnum \cup {"-"}

\* one label of domainRegex: [a-zA-Z0-9]([a-zA-Z0-9-]{0,61}[a-zA-Z0-9])?
LabelMatches(l) ==
  /\ Len(l) >= 1
  /\ l[1] \in Alnum
  /\ Len(l) >= 2 =>
       /\ Len(l) - 2 <= MaxLabelMiddle
       /\ l[Len(l)] \in Alnum
       /\ \A i \in 2..(Len(l) - 1) : l[i] \in Alnum \cup {"-"}

\* domainRegex.test(domain): label(\.label)* anchored at both ends
domainRegexTest(domain) ==
  LET labels == SplitDot(domain)
  IN \A i \in 1..Len(labels) : LabelMatches(labels[i])

domainDangerousPatterns ==
  { <<"l", "o", "c", "a", "l", "h", "o", "s", "t">>,
    <<"1", "2", "7", ".", "0", ".", "0", ".", "1">>,
    <<"0", ".", "0", ".", "0", ".", "0">>,
    <<"f", "i", "l", "e", ":", "/", "/">>,
    <<"j", "a", "v", "a", "s", "c", "r", "i", "p", "t", ":">>,
    <<"d", "a", "t", "a", ":">>,
    <<"f", "t", "p", ":", "/", "/">>,
    <<"f", "t", "p", "s", ":", "/", "/">> }

isValidDomain(domain) ==
  /\ Len(domain) > 0
  /\ Len(domain) <= MaxDomainLength
  /\ domainRegexTest(domain)
  /\ ~ \E pattern \in domainDangerousPatterns :
         includes(toLowerCase(domain), toLowerCase(pattern))

(***************************************************************************)
(* The output-path check of the html step (src/safepi.js:634-660), with    *)
(* the library functions it calls: path.isAbsolute and path.normalize      *)
(* (POSIX flavour) and decodeURIComponent.                                 *)
(***************************************************************************)
\* the printable ASCII characters, code 32 first (code 96 is written <grave>)
AsciiChars ==
  << " ", "!", "\"", "#", "$", "%", "&", "'", "(", ")", "*", "+", ",", "-", ".", "/",
     "0", "1", "2", "3", "4", "5", "6", "7", "8", "9", ":", ";", "<", "=", ">", "?",
     "@", "A", "B", "C", "D", "E", "F", "G", "H", "I", "J", "K", "L", "M", "N", "O",
     "P", "Q", "R", "S", "T", "U", "V", "W", "X", "Y", "Z", "[", "\\", "]", "^", "_",
     "<grave>", "a", "b", "c", "d", "e", "f", "g", "h", "i", "j", "k", "l", "m", "n", "o",
     "p", "q", "r", "s", "t", "u", "v", "w", "x", "y", "z", "{", "|", "}", "~" >>

HexChars == <<"0", "1", "2", "3", "4", "5", "6", "7", "8", "9", "a", "b", "c", "d", "e", "f">>

IsHex(c) == \E i \in 1..Len(HexChars) : HexChars[i] = LowerChar(c)

HexVal(c) == (CHOOSE i \in 1..Len(HexChars) : HexChars[i] = LowerChar(c)) - 1

\* the byte a %XX escape starting at s[i] stands for
EscapeCode(s, i) == 16 * HexVal(s[i + 1]) + HexVal(s[i + 2])

\* decodeURIComponent does not throw URIError: every "%" starts a %XX escape.
\* An escape of a byte above 0x7f is decoded only as part of a UTF-8 sequence;
\* the paths of this model hold none, and a lone such byte is malformed.
decodeSucceeds(s) ==
  \A i \in 1..Len(s) :
    s[i] = "%" =>
      /\ i + 2 <= Len(s)
      /\ IsHex(s[i + 1])
      /\ IsHex(s[i + 2])
      /\ EscapeCode(s, i) < 128

\* the character of an ASCII code; control characters are one token
CharOfCode(code) ==
  IF code >= 32 /\ code <= 126 THEN AsciiChars[code - 31] ELSE "<ctl>"

\* mutant: escapes are left as they are
decodeNothing(s) == s

\* decodeURIComponent(s), for s with decodeSucceeds(s)
RECURSIVE decodeURIComponent(_)
decodeURIComponent(s) ==
  IF s = <<>> THEN <<>>
  ELSE IF s[1] = "%"
       THEN <<CharOfCode(EscapeCode(s, 1))>> \o decodeURIComponent(SubSeq(s, 4, Len(s)))
       ELSE <<s[1]>> \o decodeURIComponent(Tail(s))

\* path.isAbsolute (POSIX)
isAbsolute(p) == Len(p) > 0 /\ p[1] = "/"

\* the segments of s, split at every "/"
RECURSIVE SplitSlash(_)
SplitSlash(s) ==
  IF \A i \in 1..Len(s) : s[i] # "/"
  THEN <<s>>
  ELSE LET k == CHOOSE i \in 1..Len(s) :
                  s[i] = "/" /\ \A j \in 1..(i - 1) : s[j] # "/"
       IN <<SubSeq(s, 1, k - 1)>> \o SplitSlash(SubSeq(s, k + 1, Len(s)))

\* normalizeString of node's path module, on segments: res is the result so far
RECURSIVE normalizeString(_, _, _)
normalizeString(segs, res, allowAboveRoot) ==
  IF segs = <<>> THEN res
  ELSE LET seg == Head(segs)
           rest == Tail(segs)
       IN IF seg = <<>> \/ seg = <<".">>
          THEN normalizeString(rest, res, allowAboveRoot)
          ELSE IF seg = <<".", ".">>
               THEN IF res # <<>> /\ res[Len(res)] # <<".", ".">>
                    THEN normalizeString(rest, SubSeq(res, 1, Len(res) - 1), allowAboveRoot)
                    ELSE IF allowAboveRoot
                         THEN normalizeString(rest, Append(res, seg), allowAboveRoot)
                         ELSE normalizeString(rest, res, allowAboveRoot)
               ELSE normalizeString(rest, Append(res, seg), allowAboveRoot)

\* segments joined by "/"
RECURSIVE JoinSlash(_)
JoinSlash(segs) ==
  IF segs = <<>> THEN <<>>
  ELSE IF Len(segs) = 1 THEN segs[1]
       ELSE segs[1] \o <<"/">> \o JoinSlash(Tail(segs))

\* path.normalize (POSIX)
normalize(p) ==
  IF Len(p) = 0 THEN <<".">>
  ELSE LET abs == p[1] = "/"
           trailingSeparator == p[Len(p)] = "/"
           body == JoinSlash(normalizeString(SplitSlash(p), <<>>, ~abs))
       IN IF Len(body) = 0
          THEN IF abs THEN <<"/">>
               ELSE IF trailingSeparator THEN <<".", "/">> ELSE <<".">>
          ELSE (IF abs THEN <<"/">> ELSE <<>>) \o body
                 \o (IF trailingSeparator THEN <<"/">> ELSE <<>>)

pathDangerousPatterns ==
  { <<".", ".">>,
    <<"/", ".", "/">>,
    <<"\\">>,
    <<"%", "2", "e", "%", "2", "e">>,
    <<"%", "2", "E", "%", "2", "E">>,
    <<".", ".", "%", "2", "f">>,
    <<".", ".", "%", "2", "F">>,
    <<"%", "2", "e", "%", "2", "e", "%", "2", "f">>,
    <<"%", "2", "E", "%", "2", "E", "%", "2", "F">> }

\* isPathTraversal(inputPath): "URIError" when decodeURIComponent throws
isPathTraversal(inputPath) ==
  IF isAbsolute(inputPath) THEN "dangerous"
  ELSE IF ~decodeSucceeds(inputPath) THEN "URIError"
  ELSE LET normalized == normalize(decodeURIComponent(inputPath))
       IN IF \E pattern \in pathDangerousPatterns :
               includes(toLowerCase(normalized), toLowerCase(pattern))
          THEN "dangerous"
          ELSE "safe"

(***************************************************************************)
(* JavaScript values of the payload fields the orchestrator reads.         *)
(***************************************************************************)
Undefined == [t |-> "undefined"]
JsNull == [t |-> "null"]
JsString(s) == [t |-> "string", v |-> s]
JsNumber(n) == [t |-> "number", v |-> n]
\* a string on whose characters the code works
JsChars(s) == [t |-> "chars", v |-> s]

\* ToBoolean, as applied by if (result.error)
Truthy(x) ==
  CASE x.t = "string" -> x.v # ""
    [] x.t = "chars" -> Len(x.v) > 0
    [] x.t = "number" -> x.v # 0
    [] OTHER -> FALSE

\* x >= n for a number n: undefined converts to NaN, null to 0
JsGe(x, n) ==
  CASE x.t = "number" -> x.v >= n
    [] x.t = "null" -> 0 >= n
    [] OTHER -> FALSE

(***************************************************************************)
(* The inputs of a run and the answers of its environment.                 *)
(***************************************************************************)
\* domain arguments: two valid names and a denylisted one
DomainPool ==
  { <<"a", ".", "i", "o">>,
    <<"b", ".", "i", "o">>,
    <<"l", "o", "c", "a", "l", "h", "o", "s", "t">> }

\* isValidDomain on the domain arguments, evaluated once
domainIsValid == [d \in DomainPool |-> isValidDomain(d)]

FirstName == <<"a", ".", "i", "o">>
SecondName == <<"b", ".", "i", "o">>

\* --domain values: lists of one to MaxDomains entries, repeats allowed.  The
\* two valid names are interchangeable, so a list that holds the second one
\* holds the first one earlier.
DomainLists ==
  { l \in UNION { [1..n -> DomainPool] : n \in 1..MaxDomains } :
      \A i \in 1..Len(l) : l[i] = SecondName => \E j \in 1..(i - 1) : l[j] = FirstName }

PassingScores == {0, 100}

PayloadScores == {JsNumber(-1), JsNumber(100), JsNumber(115)}

\* the error field: absent, null as the API sends it for a scan that ran,
\* a message
PayloadErrors == {Undefined, JsNull, JsString("Scan failed")}

ReportFormats == {"text", "pretty", "html"}

DefaultOutput == <<".", "/">>

\* --output values: the default, a directory next to the working directory,
\* a malformed escape, and a path that does not exist yet: ".." segments
\* after a directory name that holds an encoded separator
OutputPaths ==
  { DefaultOutput,
    <<".", ".", "/", "x", "/">>,
    <<"%">>,
    <<"a", "%", "2", "f", "b", "/", ".", ".", "/", ".", ".">> }

\* isPathTraversal on the --output values, evaluated once
pathCheck == [p \in OutputPaths |-> isPathTraversal(p)]

\* ways makeRequest rejects: the timeout of line 147, a body that JSON.parse
\* refuses (line 134); a network error (line 142) rejects in the same way
TransportErrors ==
  { "Request timeout",
    "Invalid JSON response: Unexpected end of JSON input" }

StatusOk == 200
StatusCodes == {StatusOk, 500}

\* parsed JSON bodies: null, or an object with the fields read.
\* The falsy error values other than undefined come with one score only.
Payloads ==
  {JsNull}
    \cup {[t |-> "object", error |-> Undefined, score |-> s] : s \in PayloadScores}
    \cup {[t |-> "object", error |-> e, score |-> JsNumber(100)] :
            e \in {x \in PayloadErrors \ {Undefined} : ~Truthy(x)}}
    \cup {[t |-> "object", error |-> e, score |-> Undefined] :
            e \in {x \in PayloadErrors : Truthy(x)}}

\* how an API call settles: the promise of makeRequest rejects or resolves
Outcomes ==
  {[kind |-> "reject", message |-> m] : m \in TransportErrors}
    \cup {[kind |-> "resolve", statusCode |-> c, data |-> JsNull] :
            c \in StatusCodes \ {StatusOk}}
    \cup {[kind |-> "resolve", statusCode |-> StatusOk, data |-> d] : d \in Payloads}

\* what the file system does to the html step
FsFaults == {"none", "mkdir", "write"}

\* The clock is read by generateTimestamp only.  clock is the earliest time it
\* can show; a reading is later by one of these numbers of seconds.
Latencies == {0, 1}

(***************************************************************************)
(* scanSingleDomain (src/safepi.js:565-699).                               *)
(***************************************************************************)
\* mutant: a failed scan is reported without its domain
FailureUnnamed(hostDomain, reason) ==
  [domain |-> <<>>, success |-> FALSE, error |-> reason]

\* the result object of the catch block and of a failed validation
Failure(hostDomain, reason) ==
  [domain |-> hostDomain, success |-> FALSE, error |-> reason]

\* mutant: the score has to exceed the threshold
SuccessStrict(hostDomain, score, threshold) ==
  [domain |-> hostDomain, success |-> TRUE, score |-> score,
   passingScore |-> threshold,
   passed |-> (score.t = "number" /\ score.v > threshold)]

\* the result object of lines 688-694
Success(hostDomain, score, threshold) ==
  [domain |-> hostDomain, success |-> TRUE, score |-> score,
   passingScore |-> threshold, passed |-> JsGe(score, threshold)]

\* the result returned for a domain that fails validation (lines 575-582)
InvalidDomainResult(hostDomain) == Failure(hostDomain, "Invalid domain format")

HttpError(statusCode) == "HTTP " \o ToString(statusCode)

\* hostDomain.replace(/[^a-zA-Z0-9]/g, "_")
sanitizeDomain(hostDomain) ==
  [i \in 1..Len(hostDomain) |->
     IF hostDomain[i] \in Alnum THEN hostDomain[i] ELSE "_"]

\* path.resolve(baseDir, reportPath) of a relative path, as the segments
\* that lead from the working directory to it (".." first when it leaves it)
resolveFromCwd(reportPath) == normalizeString(SplitSlash(reportPath), <<>>, TRUE)

\* the file of lines 673-680; timestamp is the clock reading of generateTimestamp
reportFile(hostDomain, reportPath, timestamp) ==
  [dir |-> resolveFromCwd(reportPath),
   name |-> <<"safepi", sanitizeDomain(hostDomain), timestamp, "html">>]

\* mutant: the error field of the payload is never looked at
payloadHasErrorIgnored(data) == FALSE

\* the test of line 608: if (result.error)
payloadHasError(data) == Truthy(data.error)

TraversalMessage == "Invalid output path: Path traversal or absolute path detected."

\* mutant: the output path is not checked
pathIsDangerousNever(reportPath) == FALSE

\* the test of line 662: if (isPathTraversal(reportPath))
pathIsDangerous(reportPath) == pathCheck[reportPath] = "dangerous"

\* mutant: the directory is created first and the path checked afterwards
madeBeforeCheckSwapped(missing) == missing

\* whether the html step has created the directory when the check of line
\* 662 throws: mkdirSync comes after it (lines 669-671)
madeBeforeCheck(missing) == FALSE

\* mutant: an error of the output step leaves the scan a success
outputFailureAsSuccess(hostDomain, data, threshold, reason) ==
  Success(hostDomain, data.score, threshold)

\* the catch block (lines 695-698) for an error thrown by the html step: the
\* result built from the payload is dropped
outputFailure(hostDomain, data, threshold, reason) == Failure(hostDomain, reason)

\* what the try block does with a response whose payload is clean: renders
\* it and, in html mode, writes the report (lines 613-694).  existing is the
\* set of directories that exist, fault what the file system refuses.
renderAndSave(hostDomain, data, threshold, format, reportPath, existing, fault, now) ==
  LET done == [result |-> Success(hostDomain, data.score, threshold),
               printed |-> TRUE, mkdir |-> FALSE, file |-> <<>>, refused |-> "none"]
      failed(reason, made, refused) ==
             [result |-> outputFailure(hostDomain, data, threshold, reason),
              printed |-> FALSE, mkdir |-> made, file |-> <<>>, refused |-> refused]
      missing == reportPath \notin existing
  IN IF format # "html" THEN done
     ELSE IF pathCheck[reportPath] = "URIError"
          THEN failed("URI malformed", FALSE, "none")
     ELSE IF pathIsDangerous(reportPath)
          THEN failed(TraversalMessage, madeBeforeCheck(missing), "none")
     ELSE IF missing /\ fault = "mkdir"
          THEN failed("EACCES: permission denied, mkdir", FALSE, "mkdirRefused")
     ELSE IF fault = "write"
          THEN failed("EACCES: permission denied, open", missing, "writeRefused")
     ELSE [done EXCEPT !.printed = FALSE, !.mkdir = missing,
                       !.file = <<reportFile(hostDomain, reportPath, now)>>]

\* the part of scanSingleDomain that runs once makeRequest has settled
\* (lines 594-698)
scanAfterResponse(hostDomain, o, threshold, format, reportPath, existing, fault, now) ==
  LET failed(reason) ==
        [result |-> Failure(hostDomain, reason),
         printed |-> FALSE, mkdir |-> FALSE, file |-> <<>>, refused |-> "none"]
  IN IF o.kind = "reject" THEN failed(o.message)
     ELSE IF o.statusCode # StatusOk THEN failed(HttpError(o.statusCode))
     ELSE IF o.data.t = "null"
          THEN failed("Cannot read properties of null (reading 'error')")
     ELSE IF o.data.t # "object"
          THEN failed("Cannot create property 'host' on " \o o.data.t)
     ELSE IF payloadHasError(o.data) THEN failed(o.data.error.v)
     ELSE renderAndSave(hostDomain, o.data, threshold, format, reportPath,
                        existing, fault, now)

\* a response whose payload passes every check of lines 596-611
IsClean(o) ==
  /\ o.kind = "resolve"
  /\ o.statusCode = StatusOk
  /\ o.data.t = "object"
  /\ ~payloadHasError(o.data)

\* the file system is consulted by the html step only (lines 669-682):
\* elsewhere the model leaves its answer out
FaultsFor(o, format) ==
  IF format = "html" /\ IsClean(o) THEN FsFaults ELSE {"none"}

\* Only the differences between clock readings matter: the first reading
\* of a run is taken as early as it can be.
LatenciesFor(written) == IF written = <<>> THEN {0} ELSE Latencies

(***************************************************************************)
(* main (src/safepi.js:765-829): the state of one run.                     *)
(***************************************************************************)
VARIABLES
  domains,       \* options.domains
  passingScore,  \* options.score
  reportFormat,  \* options.report
  outputPath,    \* options.output
  failOnIssue,   \* options.fail
  pc,            \* where main is: "loop", "request", "rateLimit", "done"
  idx,           \* position in domains of the loop's current entry
  results,       \* the results array
  hasFailures,
  hasErrors,
  inFlight,      \* number of API requests sent and not yet settled
  responses,     \* how the API call of each processed entry settled
  log,           \* what the run did, in order: requests, output, delays
  dirs,          \* directories that exist
  files,         \* report files written, in order
  clock,         \* earliest time the wall clock can show, in seconds
  summary,       \* the summary printed, <<>> while there is none
  exitCode,      \* the process exit code, -1 while the process runs
  call,          \* a function of the module called on its own: name and argument
  ret,           \* what that call has returned or thrown, or how its promise settled
  req            \* the HTTPS request of a makeRequest call and its response so far

vars == <<domains, passingScore, reportFormat, outputPath, failOnIssue, pc, idx,
          results, hasFailures, hasErrors, inFlight, responses, log, dirs, files,
          clock, summary, exitCode, call, ret, req>>

\* the state of a run of main
run == <<domains, passingScore, reportFormat, outputPath, failOnIssue, pc, idx,
         results, hasFailures, hasErrors, inFlight, responses, log, dirs, files,
         clock, summary, exitCode>>

\* the call of a single function and its result
single == <<call, ret, req>>

\* no function is called on its own during a run of main
NoCall == [fn |-> "none"]
NoReturn == [kind |-> "none"]
NoRequest == [phase |-> "none"]

config == <<domains, passingScore, reportFormat, outputPath, failOnIssue>>

\* the pause of rateLimit(2000), in seconds
RateLimitSeconds == 2

Event(type, pos) == [type |-> type, pos |-> pos]

\* the condition of line 785
needsSeparator(ds, domain) == Len(ds) > 1 /\ domain # ds[Len(ds)]

\* mutant: errors count only with --fail
exitsNonZeroOnlyWithFail(errors, failures, shouldFailOnError) ==
  shouldFailOnError /\ (errors \/ failures)

\* the condition of line 826
exitsNonZero(errors, failures, shouldFailOnError) ==
  errors \/ (shouldFailOnError /\ failures)

\* mutant: the domain is not validated
passesValidationAlways(hostDomain) == TRUE

\* the test of line 575, on the domain arguments
passesValidation(hostDomain) == domainIsValid[hostDomain]

\* mutant: main does not await the scan and goes on with the next entry
afterIssueNoAwait(i) == [pc |-> "loop", idx |-> i + 1]

\* main once scanSingleDomain has sent the request for position i: both
\* await the response (lines 594 and 775)
afterIssue(i) == [pc |-> "request", idx |-> i]

\* mutant: a failed scan is tried again
nextPositionRetry(i, result) == IF result.success THEN i + 1 ELSE i

\* mutant: a failed scan ends the loop
nextPositionAbort(i, result) == IF result.success THEN i + 1 ELSE Len(domains) + 1

\* the for-of loop of line 774 steps to the next entry, whatever the result
nextPosition(i, result) == i + 1

\* an entry for which no request was sent
NoResponse == [kind |-> "none"]

\* mutant: the result is put in front
pushResultFront(rs, result) == <<result>> \o rs

\* the results array after results.push(result) (line 776)
pushResult(rs, result) == Append(rs, result)

Init ==
  /\ domains \in DomainLists
  /\ passingScore \in PassingScores
  /\ reportFormat \in ReportFormats
  /\ failOnIssue \in BOOLEAN
  \* the output path is read in html mode only
  /\ outputPath \in (IF reportFormat = "html" THEN OutputPaths ELSE {DefaultOutput})
  /\ pc = "loop"
  /\ idx = 1
  /\ results = <<>>
  /\ hasFailures = FALSE
  /\ hasErrors = FALSE
  /\ inFlight = 0
  /\ responses = <<>>
  /\ log = <<>>
  /\ dirs = {DefaultOutput}
  /\ files = <<>>
  /\ clock = 0
  /\ summary = <<>>
  /\ exitCode = -1
  /\ call = NoCall
  /\ ret = NoReturn
  /\ req = NoRequest

\* lines 776-789: the loop body after scanSingleDomain has returned result;
\* events are what scanSingleDomain did for this entry
LoopTail(result, events, response) ==
  /\ results' = pushResult(results, result)
  /\ responses' = Append(responses, response)
  /\ hasErrors' = (hasErrors \/ ~result.success)
  /\ hasFailures' = (hasFailures \/ (result.success /\ ~result.passed))
  /\ IF needsSeparator(domains, domains[idx])
     THEN /\ log' = log \o events \o <<Event("separator", idx)>>
          /\ pc' = "rateLimit"
          /\ idx' = idx
     ELSE /\ log' = log \o events
          /\ pc' = "loop"
          /\ idx' = nextPosition(idx, result)

\* a domain that fails isValidDomain: scanSingleDomain returns at once
ScanInvalidDomain ==
  /\ pc = "loop"
  /\ idx <= Len(domains)
  /\ ~passesValidation(domains[idx])
  /\ LoopTail(InvalidDomainResult(domains[idx]), <<>>, NoResponse)
  /\ UNCHANGED <<config, inFlight, dirs, files, clock, summary, exitCode, single>>

\* a valid domain: scanSingleDomain sends the request and awaits it
IssueRequest ==
  /\ pc = "loop"
  /\ idx <= Len(domains)
  /\ passesValidation(domains[idx])
  /\ log' = Append(log, Event("request", idx))
  /\ inFlight' = inFlight + 1
  /\ pc' = afterIssue(idx).pc
  /\ idx' = afterIssue(idx).idx
  /\ UNCHANGED <<config, results, hasFailures, hasErrors, responses, dirs, files,
                 clock, summary, exitCode, single>>

\* the request settles; scanSingleDomain finishes and the loop body ends
RequestSettles ==
  /\ pc = "request"
  /\ inFlight > 0
  /\ \E o \in Outcomes :
     \E fault \in FaultsFor(o, reportFormat), latency \in LatenciesFor(files) :
       LET now == clock + latency
           r == scanAfterResponse(domains[idx], o, passingScore, reportFormat,
                                  outputPath, dirs, fault, now)
       IN /\ r.file = <<>> => latency = 0
          /\ clock' = now
          /\ inFlight' = inFlight - 1
          /\ dirs' = (IF r.mkdir THEN dirs \cup {outputPath} ELSE dirs)
          /\ files' = files \o r.file
          /\ LoopTail(r.result,
                      (IF r.printed THEN <<Event("render", idx)>> ELSE <<>>)
                        \o (IF r.refused # "none"
                            THEN <<Event(r.refused, idx)>> ELSE <<>>)
                        \o (IF r.file # <<>> THEN <<Event("write", idx)>> ELSE <<>>),
                      o)
  /\ UNCHANGED <<config, summary, exitCode, single>>

\* await rateLimit(2000) returns
RateLimitElapses ==
  /\ pc = "rateLimit"
  /\ log' = Append(log, Event("delay", idx))
  /\ clock' = clock + RateLimitSeconds
  /\ idx' = nextPosition(idx, results[Len(results)])
  /\ pc' = "loop"
  /\ UNCHANGED <<config, results, hasFailures, hasErrors, inFlight, responses, dirs,
                 files, summary, exitCode, single>>

\* mutant: a scan that erred is listed like one that scored too low
summaryLineErrorAsFail(result) ==
  IF result.success
  THEN [domain |-> result.domain,
        status |-> IF result.passed THEN "PASS" ELSE "FAIL",
        score |-> result.score]
  ELSE [domain |-> result.domain, status |-> "FAIL", score |-> Undefined]

\* the status line of one result (lines 798-810)
summaryLine(result) ==
  IF result.success
  THEN [domain |-> result.domain,
        status |-> IF result.passed THEN "PASS" ELSE "FAIL",
        score |-> result.score]
  ELSE [domain |-> result.domain, status |-> "ERROR", reason |-> result.error]

\* the summary of lines 793-823
makeSummary(rs, ds) ==
  [lines |-> [i \in 1..Len(rs) |-> summaryLine(rs[i])],
   passed |-> Cardinality({i \in 1..Len(rs) : rs[i].success /\ rs[i].passed}),
   failed |-> Cardinality({i \in 1..Len(rs) : rs[i].success /\ ~rs[i].passed}),
   errors |-> Cardinality({i \in 1..Len(rs) : ~rs[i].success}),
   total |-> Len(ds)]

\* the loop is over: summary (lines 793-823) and exit code (lines 826-828)
Finish ==
  /\ pc = "loop"
  /\ idx > Len(domains)
  /\ IF Len(domains) > 1
     THEN /\ summary' = <<makeSummary(results, domains)>>
          /\ log' = Append(log, Event("summary", 0))
     ELSE UNCHANGED <<summary, log>>
  /\ exitCode' = (IF exitsNonZero(hasErrors, hasFailures, failOnIssue) THEN 1 ELSE 0)
  /\ pc' = "done"
  /\ UNCHANGED <<config, idx, results, hasFailures, hasErrors, inFlight, responses,
                 dirs, files, clock, single>>

Next ==
  \/ ScanInvalidDomain
  \/ IssueRequest
  \/ RequestSettles
  \/ RateLimitElapses
  \/ Finish

Spec == Init /\ [][Next]_vars

\* every API call settles, timers fire, and code that can run does run
LiveSpec ==
  /\ Spec
  /\ WF_vars(ScanInvalidDomain)
  /\ WF_vars(IssueRequest)
  /\ WF_vars(RequestSettles)
  /\ WF_vars(RateLimitElapses)
  /\ WF_vars(Finish)

(***************************************************************************)
(* The functions the module exports, called on their own (lines 846-862):  *)
(* the module is imported and main does not run (line 842).                *)
(***************************************************************************)
MaxTextLen == 4

Returned(value) == [kind |-> "return", value |-> value]
Thrown(error) == [kind |-> "throw", error |-> error]

\* escapeHtml (src/safepi.js:42-50)
EntityAmp == <<"&", "a", "m", "p", ";">>
EntityLt == <<"&", "l", "t", ";">>
EntityGt == <<"&", "g", "t", ";">>
EntityQuot == <<"&", "q", "u", "o", "t", ";">>
EntityApos == <<"&", "#", "3", "9", ";">>

\* mutant: replace without the g flag, the first occurrence only
RECURSIVE replaceFirst(_, _, _)
replaceFirst(s, c, by) ==
  IF s = <<>> THEN <<>>
  ELSE IF s[1] = c THEN by \o Tail(s)
       ELSE <<s[1]>> \o replaceFirst(Tail(s), c, by)

\* s.replace(/c/g, by) for a single character c
RECURSIVE replaceAll(_, _, _)
replaceAll(s, c, by) ==
  IF s = <<>> THEN <<>>
  ELSE (IF s[1] = c THEN by ELSE <<s[1]>>) \o replaceAll(Tail(s), c, by)

\* mutant: the ampersand is replaced last
escapeChainAmpLast(s) ==
  replaceAll(
    replaceAll(
      replaceAll(
        replaceAll(
          replaceAll(s, "<", EntityLt),
          ">", EntityGt),
        "\"", EntityQuot),
      "'", EntityApos),
    "&", EntityAmp)

\* the five replace calls of lines 44-49, in their order
escapeChain(s) ==
  replaceAll(
    replaceAll(
      replaceAll(
        replaceAll(
          replaceAll(s, "&", EntityAmp),
          "<", EntityLt),
        ">", EntityGt),
      "\"", EntityQuot),
    "'", EntityApos)

\* escapeHtml(text): a truthy value that is no string has no replace method
escapeHtml(text) ==
  IF ~Truthy(text) THEN Returned(<<>>)
  ELSE IF text.t = "chars" THEN Returned(escapeChain(text.v))
  ELSE Thrown("TypeError")

\* the strings escapeHtml is called on: every string of at most MaxTextLen
\* characters over the five special characters and letters of an entity
TextAlphabet == {"&", "<", ">", "\"", "'", "l", "t", ";"}

Texts == UNION {[1..n -> TextAlphabet] : n \in 0..MaxTextLen}

EscapeInputs ==
  {Undefined, JsNull, JsNumber(0), JsNumber(5)} \cup {JsChars(s) : s \in Texts}

\* isValidDomain on any value: line 721 lets only non-empty strings through
isValidDomainValue(domain) ==
  /\ Truthy(domain)
  /\ domain.t = "chars"
  /\ isValidDomain(domain.v)

MaxNameLen == 4

\* n times the character c
Repeat(c, n) == [i \in 1..n |-> c]

\* labels joined by "."
RECURSIVE JoinDot(_)
JoinDot(labels) ==
  IF Len(labels) = 1 THEN labels[1]
  ELSE labels[1] \o <<".">> \o JoinDot(Tail(labels))

\* the strings isValidDomain is called on: every string of at most
\* MaxNameLen characters over a letter in both cases, a digit, the dot, the
\* hyphen and the slash; names and addresses; names at the length limits
NameAlphabet == {"a", "Z", "1", ".", "-", "/"}

ShortNames == UNION {[1..n -> NameAlphabet] : n \in 0..MaxNameLen}

Label63 == Repeat("a", 63)

WrittenNames ==
  { <<"e", "x", "a", "m", "p", "l", "e", ".", "c", "o", "m">>,
    <<"s", "u", "b", ".", "e", "x", "a", "m", "p", "l", "e", ".", "c", "o", "m">>,
    <<"e", "x", "a", "m", "p", "l", "e", "-", "s", "i", "t", "e", ".", "c", "o", "m">>,
    <<"1", "2", "3", ".", "c", "o", "m">>,
    <<"e", "x", "a", "m", "p", "l", "e", ".", ".", "c", "o", "m">>,
    <<".", "e", "x", "a", "m", "p", "l", "e", ".", "c", "o", "m">>,
    <<"e", "x", "a", "m", "p", "l", "e", ".", "c", "o", "m", ".">>,
    <<"l", "o", "c", "a", "l", "h", "o", "s", "t">>,
    <<"L", "o", "c", "a", "l", "H", "o", "s", "t">>,
    <<"m", "y", "l", "o", "c", "a", "l", "h", "o", "s", "t", ".", "c", "o", "m">>,
    <<"1", "2", "7", ".", "0", ".", "0", ".", "1">>,
    <<"1", "2", "7", ".", "0", ".", "0", ".", "1", "0">>,
    <<"0", ".", "0", ".", "0", ".", "0">>,
    <<"1", "0", ".", "0", ".", "0", ".", "0">>,
    <<"1", "0", ".", "0", ".", "0", ".", "1">>,
    <<"a", ".", "i", "o", "/", "x">>,
    <<"a", ".", "i", "o", "?", "x">>,
    <<"a", ".", "i", "o", "#", "x">>,
    <<"a", ".", "i", "o", ":", "8", "0">>,
    <<"a", "_", "b", ".", "i", "o">>,
    <<"a", " ", "b", ".", "i", "o">> }

LongNames ==
  { Repeat("a", 254),
    JoinDot(<<Label63, Label63, Label63, Repeat("a", 61)>>),
    JoinDot(<<Label63, Label63, Label63, Repeat("a", 62)>>),
    JoinDot(<<Label63, <<"i", "o">>>>),
    JoinDot(<<Repeat("a", 64), <<"i", "o">>>>),
    JoinDot(<<<<"a">>, Repeat("b", 64)>>) }

DomainInputs ==
  {Undefined, JsNull, JsNumber(0), JsNumber(5)}
    \cup {JsChars(s) : s \in ShortNames \cup WrittenNames \cup LongNames}

\* the WHATWG URL parser behind new URL(input) (lines 89 and 708), without
\* a base URL, on printable ASCII input.  Not modelled: hosts in brackets,
\* hosts whose last label is a number (IPv4), percent-escapes in hosts,
\* dot segments and percent-encoding of paths.
Alpha == Range(UpperChars) \cup Range(LowerChars)

SchemeChars == Alnum \cup {"+", "-", "."}

RECURSIVE TrimLeft(_)
TrimLeft(s) == IF s # <<>> /\ s[1] = " " THEN TrimLeft(Tail(s)) ELSE s

RECURSIVE TrimRight(_)
TrimRight(s) ==
  IF s # <<>> /\ s[Len(s)] = " " THEN TrimRight(SubSeq(s, 1, Len(s) - 1)) ELSE s

\* the position of the first character of s that is in cs, Len(s) + 1 if none
FirstOf(s, cs) ==
  IF \E i \in 1..Len(s) : s[i] \in cs
  THEN CHOOSE i \in 1..Len(s) : s[i] \in cs /\ \A j \in 1..(i - 1) : s[j] \notin cs
  ELSE Len(s) + 1

\* the position of the last c in s, 0 if none
LastOf(s, c) ==
  IF \E i \in 1..Len(s) : s[i] = c
  THEN CHOOSE i \in 1..Len(s) : s[i] = c /\ \A j \in (i + 1)..Len(s) : s[j] # c
  ELSE 0

From(s, i) == SubSeq(s, i, Len(s))

\* the position of the ":" that ends the scheme of s, 0 if s has no scheme
schemeEnd(s) ==
  LET k == FirstOf(s, {":"})
  IN IF /\ k <= Len(s)
        /\ k > 1
        /\ s[1] \in Alpha
        /\ \A j \in 2..(k - 1) : s[j] \in SchemeChars
     THEN k
     ELSE 0

SchemeHttp == <<"h", "t", "t", "p">>
SchemeHttps == <<"h", "t", "t", "p", "s">>
SchemeFile == <<"f", "i", "l", "e">>

\* the special schemes with their default ports
SpecialPorts ==
  { <<SchemeHttp, <<"8", "0">>>>,
    <<SchemeHttps, <<"4", "4", "3">>>>,
    <<<<"f", "t", "p">>, <<"2", "1">>>>,
    <<<<"w", "s">>, <<"8", "0">>>>,
    <<<<"w", "s", "s">>, <<"4", "4", "3">>>>,
    <<SchemeFile, <<>>>> }

IsSpecial(scheme) == \E sp \in SpecialPorts : sp[1] = scheme

RECURSIVE SkipSlashes(_)
SkipSlashes(s) ==
  IF s # <<>> /\ s[1] \in {"/", "\\"} THEN SkipSlashes(Tail(s)) ELSE s

ForbiddenHostChars ==
  {" ", "#", "/", ":", "<", ">", "?", "@", "[", "\\", "]", "^", "|", "%"}

\* the query percent-encode set of a special scheme
queryEncode(c) ==
  CASE c = " " -> <<"%", "2", "0">>
    [] c = "\"" -> <<"%", "2", "2">>
    [] c = "<" -> <<"%", "3", "C">>
    [] c = ">" -> <<"%", "3", "E">>
    [] c = "'" -> <<"%", "2", "7">>
    [] OTHER -> <<c>>

RECURSIVE encodeQuery(_)
encodeQuery(s) == IF s = <<>> THEN <<>> ELSE queryEncode(s[1]) \o encodeQuery(Tail(s))

InvalidUrl == [ok |-> FALSE]

\* the URL record of what follows the scheme
parseAfterScheme(scheme, rest) ==
  LET special == IsSpecial(scheme)
      slashes == Len(rest) >= 2 /\ rest[1] = "/" /\ rest[2] = "/"
      hasAuthority == (special /\ scheme # SchemeFile) \/ slashes
      afterSlashes == IF special /\ scheme # SchemeFile THEN SkipSlashes(rest)
                      ELSE IF slashes THEN From(rest, 3) ELSE rest
      stops == IF special THEN {"/", "\\", "?", "#"} ELSE {"/", "?", "#"}
      authorityEnd == IF hasAuthority THEN FirstOf(afterSlashes, stops) ELSE 1
      authority == SubSeq(afterSlashes, 1, authorityEnd - 1)
      hostport == From(authority, LastOf(authority, "@") + 1)
      colon == FirstOf(hostport, {":"})
      host == SubSeq(hostport, 1, colon - 1)
      portText == From(hostport, colon + 1)
      tail == From(afterSlashes, authorityEnd)
      pathEnd == FirstOf(tail, {"?", "#"})
      path == SubSeq(tail, 1, pathEnd - 1)
      fromQuery == From(tail, pathEnd)
      queryEnd == FirstOf(fromQuery, {"#"})
      query == SubSeq(fromQuery, 1, queryEnd - 1)
  IN IF \/ special /\ scheme # SchemeFile /\ host = <<>>
        \/ \E i \in 1..Len(host) : host[i] \in ForbiddenHostChars
        \/ \E i \in 1..Len(portText) : portText[i] \notin Range(DigitChars)
     THEN InvalidUrl
     ELSE [ok |-> TRUE,
           protocol |-> scheme \o <<":">>,
           hostname |-> IF special THEN toLowerCase(host) ELSE host,
           port |-> IF <<scheme, portText>> \in SpecialPorts THEN <<>> ELSE portText,
           pathname |-> IF special /\ path = <<>> THEN <<"/">> ELSE path,
           search |-> IF Len(query) <= 1 THEN <<>>
                      ELSE IF special THEN encodeQuery(query) ELSE query]

\* new URL(input) for a string; InvalidUrl stands for the TypeError
URL(input) ==
  LET s == TrimRight(TrimLeft(input))
      k == schemeEnd(s)
  IN IF k = 0 THEN InvalidUrl
     ELSE parseAfterScheme(toLowerCase(SubSeq(s, 1, k - 1)), From(s, k + 1))

\* new URL(value): a value that is no string is converted to one, and none
\* of undefined, null and the numbers has a scheme
URLOfValue(value) == IF value.t = "chars" THEN URL(value.v) ELSE InvalidUrl

\* mutant: every URL that parses is accepted
isValidUrlAnyScheme(url) == URLOfValue(url).ok

\* isValidUrl (src/safepi.js:706-713)
isValidUrl(url) ==
  LET parsedUrl == URLOfValue(url)
  IN /\ parsedUrl.ok
     /\ parsedUrl.protocol \in {SchemeHttps \o <<":">>, SchemeHttp \o <<":">>}

\* URLs with what the URL standard makes of them: a well-formed http or
\* https URL ("web"), a URL of another scheme, no URL at all; and the host
UrlTable ==
  { [text |-> <<"h", "t", "t", "p", "s", ":", "/", "/", "x", ".", "i", "o", "/", "d">>,
     kind |-> "web", host |-> <<"x", ".", "i", "o">>],
    [text |-> <<"h", "t", "t", "p", ":", "/", "/", "x", ".", "i", "o">>,
     kind |-> "web", host |-> <<"x", ".", "i", "o">>],
    [text |-> <<"H", "T", "T", "P", "S", ":", "/", "/", "X", ".", "I", "O", "/", "d">>,
     kind |-> "web", host |-> <<"x", ".", "i", "o">>],
    [text |-> <<" ", "h", "t", "t", "p", "s", ":", "/", "/", "x", ".", "i", "o", "/", "d", " ">>,
     kind |-> "web", host |-> <<"x", ".", "i", "o">>],
    [text |-> <<"h", "t", "t", "p", "s", ":", "x", ".", "i", "o">>,
     kind |-> "web", host |-> <<"x", ".", "i", "o">>],
    [text |-> <<"h", "t", "t", "p", "s", ":", "/", "/", "x", ".", "i", "o", "/", "\"", ">", "<", "s", ">">>,
     kind |-> "web", host |-> <<"x", ".", "i", "o">>],
    [text |-> <<"h", "t", "t", "p", "s", ":", "/", "/", "u", "@", "x", ".", "i", "o", ":", "8", "4", "4", "3", "/", "d", "?", "q", "=", "1", "#", "f">>,
     kind |-> "web", host |-> <<"x", ".", "i", "o">>],
    [text |-> <<"h", "t", "t", "p", "s", ":", "/", "/">>,
     kind |-> "malformed", host |-> <<>>],
    [text |-> <<"h", "t", "t", "p", "s", ":", "/", "/", "x", " ", "y", ".", "i", "o", "/">>,
     kind |-> "malformed", host |-> <<>>],
    [text |-> <<"x", ".", "i", "o", "/", "d">>,
     kind |-> "malformed", host |-> <<>>],
    [text |-> <<"/", "/", "x", ".", "i", "o", "/", "d">>,
     kind |-> "malformed", host |-> <<>>],
    [text |-> <<"/", "d">>,
     kind |-> "malformed", host |-> <<>>],
    [text |-> <<"f", "t", "p", ":", "/", "/", "x", ".", "i", "o", "/", "f">>,
     kind |-> "other", host |-> <<"x", ".", "i", "o">>],
    [text |-> <<"j", "a", "v", "a", "s", "c", "r", "i", "p", "t", ":", "a", "l", "e", "r", "t", "(", "1", ")">>,
     kind |-> "other", host |-> <<>>],
    [text |-> <<"J", "a", "v", "a", "S", "c", "r", "i", "p", "t", ":", "a", "l", "e", "r", "t", "(", "1", ")">>,
     kind |-> "other", host |-> <<>>],
    [text |-> <<"d", "a", "t", "a", ":", "t", "e", "x", "t", "/", "h", "t", "m", "l", ",", "<", "s", ">">>,
     kind |-> "other", host |-> <<>>],
    [text |-> <<"f", "i", "l", "e", ":", "/", "/", "/", "e", "t", "c", "/", "p", "a", "s", "s", "w", "d">>,
     kind |-> "other", host |-> <<>>],
    [text |-> <<"h", "t", "t", "p", "s", ":", "/", "/", "o", "b", "s", "e", "r", "v", "a", "t", "o", "r", "y", "-", "a", "p", "i", ".", "m", "d", "n", ".", "m", "o", "z", "i", "l", "l", "a", ".", "n", "e", "t", "/", "a", "p", "i", "/", "v", "2", "/", "s", "c", "a", "n", "?", "h", "o", "s", "t", "=", "a", ".", "i", "o">>,
     kind |-> "web", host |-> <<"o", "b", "s", "e", "r", "v", "a", "t", "o", "r", "y", "-", "a", "p", "i", ".", "m", "d", "n", ".", "m", "o", "z", "i", "l", "l", "a", ".", "n", "e", "t">>],
    [text |-> <<"h", "t", "t", "p", "s", ":", "/", "/", "O", "B", "S", "E", "R", "V", "A", "T", "O", "R", "Y", "-", "A", "P", "I", ".", "M", "D", "N", ".", "M", "O", "Z", "I", "L", "L", "A", ".", "N", "E", "T", "/">>,
     kind |-> "web", host |-> <<"o", "b", "s", "e", "r", "v", "a", "t", "o", "r", "y", "-", "a", "p", "i", ".", "m", "d", "n", ".", "m", "o", "z", "i", "l", "l", "a", ".", "n", "e", "t">>],
    [text |-> <<"h", "t", "t", "p", ":", "/", "/", "o", "b", "s", "e", "r", "v", "a", "t", "o", "r", "y", "-", "a", "p", "i", ".", "m", "d", "n", ".", "m", "o", "z", "i", "l", "l", "a", ".", "n", "e", "t", ":", "8", "0", "8", "0", "/", "x">>,
     kind |-> "web", host |-> <<"o", "b", "s", "e", "r", "v", "a", "t", "o", "r", "y", "-", "a", "p", "i", ".", "m", "d", "n", ".", "m", "o", "z", "i", "l", "l", "a", ".", "n", "e", "t">>],
    [text |-> <<"h", "t", "t", "p", "s", ":", "/", "/", "o", "b", "s", "e", "r", "v", "a", "t", "o", "r", "y", "-", "a", "p", "i", ".", "m", "d", "n", ".", "m", "o", "z", "i", "l", "l", "a", ".", "n", "e", "t", ".", "e", "v", "i", "l", ".", "i", "o", "/", "a", "p", "i", "/", "v", "2", "/", "s", "c", "a", "n">>,
     kind |-> "web", host |-> <<"o", "b", "s", "e", "r", "v", "a", "t", "o", "r", "y", "-", "a", "p", "i", ".", "m", "d", "n", ".", "m", "o", "z", "i", "l", "l", "a", ".", "n", "e", "t", ".", "e", "v", "i", "l", ".", "i", "o">>],
    [text |-> <<"h", "t", "t", "p", "s", ":", "/", "/", "o", "b", "s", "e", "r", "v", "a", "t", "o", "r", "y", "-", "a", "p", "i", ".", "m", "d", "n", ".", "m", "o", "z", "i", "l", "l", "a", ".", "n", "e", "t", "@", "e", "v", "i", "l", ".", "i", "o", "/">>,
     kind |-> "web", host |-> <<"e", "v", "i", "l", ".", "i", "o">>],
    [text |-> <<"h", "t", "t", "p", "s", ":", "/", "/", "e", "v", "i", "l", ".", "i", "o", "/", "o", "b", "s", "e", "r", "v", "a", "t", "o", "r", "y", "-", "a", "p", "i", ".", "m", "d", "n", ".", "m", "o", "z", "i", "l", "l", "a", ".", "n", "e", "t">>,
     kind |-> "web", host |-> <<"e", "v", "i", "l", ".", "i", "o">>],
    [text |-> <<"h", "t", "t", "p", "s", ":", "/", "/", "e", "v", "i", "l", ".", "i", "o", "/", "?", "h", "o", "s", "t", "=", "o", "b", "s", "e", "r", "v", "a", "t", "o", "r", "y", "-", "a", "p", "i", ".", "m", "d", "n", ".", "m", "o", "z", "i", "l", "l", "a", ".", "n", "e", "t">>,
     kind |-> "web", host |-> <<"e", "v", "i", "l", ".", "i", "o">>],
    [text |-> <<"h", "t", "t", "p", "s", ":", "/", "/", "x", "o", "b", "s", "e", "r", "v", "a", "t", "o", "r", "y", "-", "a", "p", "i", ".", "m", "d", "n", ".", "m", "o", "z", "i", "l", "l", "a", ".", "n", "e", "t", "/">>,
     kind |-> "web", host |-> <<"x", "o", "b", "s", "e", "r", "v", "a", "t", "o", "r", "y", "-", "a", "p", "i", ".", "m", "d", "n", ".", "m", "o", "z", "i", "l", "l", "a", ".", "n", "e", "t">>],
    [text |-> <<"h", "t", "t", "p", "s", ":", "/", "/", "o", "b", "s", "e", "r", "v", "a", "t", "o", "r", "y", "-", "a", "p", "i", ".", "m", "d", "n", ".", "m", "o", "z", "i", "l", "l", "a", ".", "n", "e", "t", ".", "/">>,
     kind |-> "web", host |-> <<"o", "b", "s", "e", "r", "v", "a", "t", "o", "r", "y", "-", "a", "p", "i", ".", "m", "d", "n", ".", "m", "o", "z", "i", "l", "l", "a", ".", "n", "e", "t", ".">>],
    [text |-> <<"h", "t", "t", "p", "s", ":", "/", "/", "m", "d", "n", ".", "m", "o", "z", "i", "l", "l", "a", ".", "n", "e", "t", "/">>,
     kind |-> "web", host |-> <<"m", "d", "n", ".", "m", "o", "z", "i", "l", "l", "a", ".", "n", "e", "t">>] }

UrlInputs ==
  {Undefined, JsNull, JsNumber(5), JsChars(<<>>)} \cup {JsChars(u.text) : u \in UrlTable}

\* formatHtmlOutput (src/safepi.js:244-410): the document as the values
\* the template interpolates, each with the field it comes from
RECURSIVE Digits(_)
Digits(n) ==
  IF n < 0 THEN <<"-">> \o Digits(0 - n)
  ELSE IF n < 10 THEN <<DigitChars[n + 1]>>
  ELSE Digits(n \div 10) \o <<DigitChars[(n % 10) + 1]>>

\* the string a template literal makes of a value
ToStr(value) ==
  CASE value.t = "chars" -> value.v
    [] value.t = "number" -> Digits(value.v)
    [] value.t = "null" -> <<"n", "u", "l", "l">>
    [] OTHER -> <<"u", "n", "d", "e", "f", "i", "n", "e", "d">>

\* a || b
JsOr(a, b) == IF Truthy(a) THEN a ELSE b

Segment(slot, origin, text) == [slot |-> slot, origin |-> origin, text |-> text]

\* new Date(undefined).toLocaleString()
InvalidDate == <<"I", "n", "v", "a", "l", "i", "d", " ", "D", "a", "t", "e">>

\* gradeColor of lines 247-254, for a grade that is a string or is missing
htmlGradeColor(grade) ==
  IF grade.t = "chars" /\ grade.v # <<>> /\ grade.v[1] = "A" THEN <<"#", "2", "8", "a", "7", "4", "5">>
  ELSE IF grade.t = "chars" /\ grade.v # <<>> /\ grade.v[1] = "B" THEN <<"#", "f", "f", "c", "1", "0", "7">>
  ELSE <<"#", "d", "c", "3", "5", "4", "5">>

formatHtmlOutput(result, threshold) ==
  LET passed == JsGe(result.score, threshold)
      title == escapeHtml(JsOr(result.host, JsChars(<<"U", "n", "k", "n", "o", "w", "n">>)))
      heading == escapeHtml(JsOr(result.host, JsChars(<<"U", "n", "k", "n", "o", "w", "n", " ", "D", "o", "m", "a", "i", "n">>)))
      linked == Truthy(result.details_url) /\ isValidUrl(result.details_url)
      href == escapeHtml(result.details_url)
  IN \* result.grade?.startsWith is no function unless grade is a string
     IF result.grade.t \notin {"undefined", "null", "chars"} THEN Thrown("TypeError")
     ELSE IF title.kind = "throw" THEN title
     ELSE IF linked /\ href.kind = "throw" THEN href
     ELSE Returned(
       << Segment("title", "host", title.value),
          Segment("h2", "host", heading.value),
          Segment("status", "template",
                  IF passed THEN <<"P", "A", "S", "S">> ELSE <<"F", "A", "I", "L">>),
          Segment("gradeColor", "template", htmlGradeColor(result.grade)),
          Segment("grade", "grade", ToStr(result.grade)),
          Segment("score", "score",
                  ToStr(result.score) \o <<"/">> \o ToStr(JsNumber(threshold))),
          Segment("tests_passed", "tests_passed", ToStr(result.tests_passed)),
          Segment("tests_failed", "tests_failed", ToStr(result.tests_failed)),
          Segment("tests_quantity", "tests_quantity", ToStr(result.tests_quantity)),
          Segment("algorithm_version", "algorithm_version",
                  ToStr(JsOr(result.algorithm_version, JsChars(<<"N", "/", "A">>)))) >>
       \o (IF linked THEN <<Segment("href", "details_url", href.value)>> ELSE <<>>)
       \o <<Segment("scanned", "scanned_at", InvalidDate)>>)

\* payloads formatHtmlOutput is called on
HostValues == {Undefined, JsChars(FirstName), JsChars(<<"<", "b", ">", "\"">>)}

GradeValues ==
  { Undefined, JsNull, JsNumber(5), JsChars(<<"A", "+">>), JsChars(<<"B", "-">>),
    JsChars(<<"F">>), JsChars(<<"A", "X">>),
    JsChars(<<"<", "s", "c", "r", "i", "p", "t", ">">>) }

VersionValues == {Undefined, JsNumber(4), JsChars(<<"\"", ">", "<", "i", ">">>)}

HtmlInputs ==
  { [result |-> [host |-> h, grade |-> g, score |-> sc, tests_passed |-> JsNumber(8),
                 tests_failed |-> JsNumber(2), tests_quantity |-> JsNumber(10),
                 algorithm_version |-> v, details_url |-> u],
     passingScore |-> 100] :
      h \in HostValues, g \in GradeValues, sc \in {JsNumber(100), JsNumber(50)},
      v \in VersionValues, u \in UrlInputs }

\* makeRequest up to the connection (src/safepi.js:87-112) and the request
\* of scanSingleDomain (lines 575-594)
ApiHost == <<"o", "b", "s", "e", "r", "v", "a", "t", "o", "r", "y", "-", "a", "p", "i", ".", "m", "d", "n", ".", "m", "o", "z", "i", "l", "l", "a", ".", "n", "e", "t">>

ApiScanPath == <<"/", "a", "p", "i", "/", "v", "2", "/", "s", "c", "a", "n", "?", "h", "o", "s", "t", "=">>

DefaultHttpsPort == 443

UpperHex == <<"0", "1", "2", "3", "4", "5", "6", "7", "8", "9", "A", "B", "C", "D", "E", "F">>

CodeOf(c) == (CHOOSE i \in 1..Len(AsciiChars) : AsciiChars[i] = c) + 31

\* the characters encodeURIComponent leaves as they are
UriUnreserved == Alnum \cup {"-", "_", ".", "!", "~", "*", "'", "(", ")"}

encodeChar(c) ==
  IF c \in UriUnreserved THEN <<c>>
  ELSE <<"%", UpperHex[(CodeOf(c) \div 16) + 1], UpperHex[(CodeOf(c) % 16) + 1]>>

\* encodeURIComponent on printable ASCII
RECURSIVE encodeURIComponent(_)
encodeURIComponent(s) ==
  IF s = <<>> THEN <<>> ELSE encodeChar(s[1]) \o encodeURIComponent(Tail(s))

\* the template literal of lines 587-589
scanUrl(hostDomain) ==
  <<"h", "t", "t", "p", "s", ":", "/", "/">> \o ApiHost \o ApiScanPath
    \o encodeURIComponent(hostDomain)

Rejected(message) == [kind |-> "reject", message |-> message]

\* https.request(options, ...) is called (line 112)
Connects(options) == [kind |-> "connect", options |-> options]

\* mutant: the API host may be a part of the hostname
isApiEndpointIncludes(hostname) == includes(hostname, ApiHost)

\* the test of line 92, negated
isApiEndpoint(hostname) == hostname = ApiHost

\* makeRequest(url, method, data) until it has rejected or has called
\* https.request; new URL throws inside the executor, which rejects the promise
makeRequest(url, method) ==
  LET parsedUrl == URL(url)
  IN IF ~parsedUrl.ok THEN Rejected("Invalid URL")
     ELSE IF ~isApiEndpoint(parsedUrl.hostname) THEN Rejected("Invalid API endpoint")
     ELSE Connects([hostname |-> parsedUrl.hostname,
                    port |-> IF parsedUrl.port = <<>> THEN JsNumber(DefaultHttpsPort)
                             ELSE JsChars(parsedUrl.port),
                    path |-> parsedUrl.pathname \o parsedUrl.search,
                    method |-> method])

\* scanSingleDomain until it awaits the response (lines 575-594)
scanRequest(hostDomain) ==
  IF ~isValidDomain(hostDomain) THEN Returned(InvalidDomainResult(hostDomain))
  ELSE makeRequest(scanUrl(hostDomain), "POST")

RequestInputs == {[url |-> u.text, method |-> m] : u \in UrlTable, m \in {"GET", "POST"}}

ScanInputs == WrittenNames \cup DomainPool

(***************************************************************************)
(* getGradeColor (src/safepi.js:162-179).                                   *)
(***************************************************************************)
\* the keys of the object literal gradeColors, by the colour they hold
GreenGrades == {<<"A", "+">>, <<"A">>, <<"A", "-">>}

YellowGrades == {<<"B", "+">>, <<"B">>, <<"B", "-">>}

RedGrades == {<<"C", "+">>, <<"C">>, <<"C", "-">>, <<"D", "+">>, <<"D">>, <<"D", "-">>, <<"F">>}

\* property names every object literal inherits from Object.prototype
ObjectPrototypeKeys ==
  { <<"c", "o", "n", "s", "t", "r", "u", "c", "t", "o", "r">>, <<"t", "o", "S", "t", "r", "i", "n", "g">>, <<"v", "a", "l", "u", "e", "O", "f">>, <<"h", "a", "s", "O", "w", "n", "P", "r", "o", "p", "e", "r", "t", "y">>, <<"_", "_", "p", "r", "o", "t", "o", "_", "_">> }

\* a value found on Object.prototype
Inherited(key) == [t |-> "inherited", v |-> key]

\* gradeColors[grade] || colors.white: the grade is turned into a property
\* key, and a key the literal does not have is looked up on Object.prototype
getGradeColor(grade) ==
  LET key == ToStr(grade)
  IN IF key \in GreenGrades THEN JsString("green")
     ELSE IF key \in YellowGrades THEN JsString("yellow")
     ELSE IF key \in RedGrades THEN JsString("red")
     ELSE IF key \in ObjectPrototypeKeys THEN Inherited(key)
     ELSE JsString("white")

GradeInputs ==
  {JsChars(g) : g \in GreenGrades \cup YellowGrades \cup RedGrades
                        \cup ObjectPrototypeKeys \cup {<<"X">>, <<>>, <<"a">>, <<"A", "+", "+">>}}
    \cup {Undefined, JsNull, JsNumber(5)}

(***************************************************************************)
(* parseArgs (src/safepi.js:439-551).  The arguments are process.argv       *)
(* without its first two entries; a call ends by returning the options or   *)
(* by process.exit.                                                         *)
(***************************************************************************)
\* the most arguments after an optional leading "--domain <list>"
MaxArgs == 3

\* process.exit(code) after message was written with console.error and, when
\* usage holds, printUsage() was called
Exit(code, stderr, usage) ==
  [kind |-> "exit", code |-> code, stderr |-> stderr, usage |-> usage]

JsNaN == [t |-> "nan"]
JsInfinity == [t |-> "infinity"]

\* a finite integer beyond the range of the integers of this module
JsLargeInteger(digits) == [t |-> "large", digits |-> digits]

\* the characters String.prototype.trim and parseInt skip
WhiteSpace == {" ", "\t", "\n"}

RECURSIVE trimStart(_)
trimStart(s) == IF s # <<>> /\ s[1] \in WhiteSpace THEN trimStart(Tail(s)) ELSE s

RECURSIVE trimEnd(_)
trimEnd(s) ==
  IF s # <<>> /\ s[Len(s)] \in WhiteSpace THEN trimEnd(SubSeq(s, 1, Len(s) - 1)) ELSE s

\* String.prototype.trim
trim(s) == trimEnd(trimStart(s))

\* String.prototype.startsWith
startsWith(s, p) == Len(s) >= Len(p) /\ SubSeq(s, 1, Len(p)) = p

\* s.split(",")
RECURSIVE SplitComma(_)
SplitComma(s) ==
  LET k == FirstOf(s, {","})
  IN IF k > Len(s) THEN <<s>>
     ELSE <<SubSeq(s, 1, k - 1)>> \o SplitComma(From(s, k + 1))

\* the largest number of decimal digits kept as an integer of this module
ExactDigits == 9

\* a decimal numeral of more digits than this is beyond the largest double
\* (1.797...e308) and converts to Infinity
DoubleDigits == 309

\* the longest prefix of s made of decimal digits
DigitPrefix(s) ==
  LET others == {i \in 1..Len(s) : s[i] \notin Range(DigitChars)}
  IN IF others = {} THEN s
     ELSE SubSeq(s, 1, (CHOOSE i \in others : \A j \in others : i <= j) - 1)

\* digits without its leading zeros, the last digit kept
DropZeros(digits) ==
  LET others == {i \in 1..Len(digits) : digits[i] # "0"}
  IN IF digits = <<>> THEN <<>>
     ELSE IF others = {} THEN <<"0">>
     ELSE From(digits, CHOOSE i \in others : \A j \in others : i <= j)

RECURSIVE DecimalValue(_)
DecimalValue(digits) ==
  IF digits = <<>> THEN 0
  ELSE 10 * DecimalValue(SubSeq(digits, 1, Len(digits) - 1))
         + HexVal(digits[Len(digits)])

\* parseInt(string) without a radix, for strings that have no 0x prefix:
\* leading white space and a sign are skipped, the longest prefix of decimal
\* digits is the value, no digit gives NaN
parseInt(string) ==
  LET s == trimStart(string)
      negative == s # <<>> /\ s[1] = "-"
      unsigned == IF s # <<>> /\ s[1] \in {"+", "-"} THEN Tail(s) ELSE s
      digits == DropZeros(DigitPrefix(unsigned))
  IN IF digits = <<>> THEN JsNaN
     ELSE IF Len(digits) > DoubleDigits THEN JsInfinity
     ELSE IF Len(digits) > ExactDigits THEN JsLargeInteger(digits)
     ELSE JsNumber(IF negative THEN 0 - DecimalValue(digits) ELSE DecimalValue(digits))

\* mutant: a score that is not a number is kept
isNaNNever(value) == FALSE

isNaN(value) == value.t = "nan"

\* the options object of lines 441-449
DefaultOptions ==
  [domains |-> <<>>, score |-> JsNumber(100), report |-> <<"p", "r", "e", "t", "t", "y">>,
   output |-> DefaultOutput, fail |-> FALSE, hidden |-> TRUE, rescan |-> TRUE]

\* mutant: only the long form asks for help
isHelpLongOnly(arg) == arg = <<"-", "-", "h", "e", "l", "p">>

\* the test of line 455
isHelp(arg) == arg = <<"-", "h">> \/ arg = <<"-", "-", "h", "e", "l", "p">>

\* domainArg.split(",").map((d) => d.trim()).filter((d) => d.length > 0)
splitDomains(domainArg) ==
  LET trimmed == [k \in DOMAIN SplitComma(domainArg) |-> trim(SplitComma(domainArg)[k])]
  IN SelectSeq(trimmed, LAMBDA d : Len(d) > 0)

\* mutant: every report format is accepted
isReportFormatAny(value) == TRUE

\* ["text", "pretty", "html"].includes(options.report)
isReportFormat(value) == value \in {<<"t", "e", "x", "t">>, <<"p", "r", "e", "t", "t", "y">>, <<"h", "t", "m", "l">>}

\* mutant: the flag is bare only as the last argument
failIsBareOnlyLast(args, i) == i >= Len(args)

\* the test of line 495: --fail stands without a value
failIsBare(args, i) == i >= Len(args) \/ startsWith(args[i + 1], <<"-">>)

\* the loop of lines 451-541 from the argument at position i on, then the
\* check of lines 544-548
RECURSIVE parseFrom(_, _, _)
parseFrom(args, i, options) ==
  IF i > Len(args)
  THEN IF Len(options.domains) = 0
       THEN Exit(1, "Error: --domain is required", TRUE)
       ELSE Returned(options)
  ELSE LET arg == args[i]
           last == i >= Len(args)
           value == toLowerCase(args[i + 1])
       IN CASE isHelp(arg) -> Exit(0, "", TRUE)
            [] arg \in {<<"-", "d">>, <<"-", "-", "d", "o", "m", "a", "i", "n">>} ->
                 IF last THEN Exit(1, "Error: --domain requires a value", FALSE)
                 ELSE parseFrom(args, i + 2,
                                [options EXCEPT !.domains = splitDomains(args[i + 1])])
            [] arg \in {<<"-", "s">>, <<"-", "-", "s", "c", "o", "r", "e">>} ->
                 IF last THEN Exit(1, "Error: --score requires a value", FALSE)
                 ELSE IF isNaN(parseInt(args[i + 1]))
                 THEN Exit(1, "Error: --score must be a number", FALSE)
                 ELSE parseFrom(args, i + 2,
                                [options EXCEPT !.score = parseInt(args[i + 1])])
            [] arg \in {<<"-", "r">>, <<"-", "-", "r", "e", "p", "o", "r", "t">>} ->
                 IF last THEN Exit(1, "Error: --report requires a value", FALSE)
                 ELSE IF ~isReportFormat(args[i + 1])
                 THEN Exit(1, "Error: --report must be one of: text, pretty, html", FALSE)
                 ELSE parseFrom(args, i + 2, [options EXCEPT !.report = args[i + 1]])
            [] arg \in {<<"-", "o">>, <<"-", "-", "o", "u", "t", "p", "u", "t">>} ->
                 IF last THEN Exit(1, "Error: --output requires a value", FALSE)
                 ELSE parseFrom(args, i + 2, [options EXCEPT !.output = args[i + 1]])
            [] arg \in {<<"-", "f">>, <<"-", "-", "f", "a", "i", "l">>} ->
                 IF failIsBare(args, i)
                 THEN parseFrom(args, i + 1, [options EXCEPT !.fail = TRUE])
                 ELSE IF value = <<"t", "r", "u", "e">>
                 THEN parseFrom(args, i + 2, [options EXCEPT !.fail = TRUE])
                 ELSE IF value = <<"f", "a", "l", "s", "e">>
                 THEN parseFrom(args, i + 2, [options EXCEPT !.fail = FALSE])
                 ELSE Exit(1, "Error: --fail must be either true or false", FALSE)
            [] arg = <<"-", "-", "h", "i", "d", "d", "e", "n">> ->
                 IF last THEN Exit(1, "Error: --hidden requires a value (true or false)", FALSE)
                 ELSE IF value = <<"t", "r", "u", "e">>
                 THEN parseFrom(args, i + 2, [options EXCEPT !.hidden = TRUE])
                 ELSE IF value = <<"f", "a", "l", "s", "e">>
                 THEN parseFrom(args, i + 2, [options EXCEPT !.hidden = FALSE])
                 ELSE Exit(1, "Error: --hidden must be either true or false", FALSE)
            [] arg = <<"-", "-", "r", "e", "s", "c", "a", "n">> ->
                 IF last THEN Exit(1, "Error: --rescan requires a value (true or false)", FALSE)
                 ELSE IF value = <<"t", "r", "u", "e">>
                 THEN parseFrom(args, i + 2, [options EXCEPT !.rescan = TRUE])
                 ELSE IF value = <<"f", "a", "l", "s", "e">>
                 THEN parseFrom(args, i + 2, [options EXCEPT !.rescan = FALSE])
                 ELSE Exit(1, "Error: --rescan must be either true or false", FALSE)
            [] OTHER -> Exit(1, "Error: Unknown option", TRUE)

parseArgs(args) == parseFrom(args, 1, DefaultOptions)

\* arguments of the command line: flags, and values that serve several flags
ArgPool ==
  { <<"-", "h">>, <<"-", "-", "h", "e", "l", "p">>, <<"-", "-", "d", "o", "m", "a", "i", "n">>, <<"-", "-", "s", "c", "o", "r", "e">>, <<"-", "-", "r", "e", "p", "o", "r", "t">>, <<"-", "-", "o", "u", "t", "p", "u", "t">>,
    <<"-", "-", "f", "a", "i", "l">>, <<"-", "-", "h", "i", "d", "d", "e", "n">>, <<"-", "-", "b", "o", "g", "u", "s">>,
    <<"a", "b", "c">>, <<"h", "t", "m", "l">>, <<"T", "R", "U", "E">>, <<"f", "a", "l", "s", "e">>, <<"9", "0">>, <<"1", "2", "a", "b", "c">>, <<" ", ",", " ">> }

\* a numeral too large for a double
HugeNumeral == Repeat("9", DoubleDigits + 1)

\* the argument vectors: a domain list first or not, then any arguments
\* and the huge numeral as the value of an option
ArgVectors ==
  {pre \o mid : pre \in {<<>>, <<<<"-", "-", "d", "o", "m", "a", "i", "n">>, <<" ", "a", ".", "i", "o", ",", " ", ",", "b", ".", "i", "o", " ">>>>},
                mid \in UNION {[1..n -> ArgPool] : n \in 0..MaxArgs}}
    \cup {<<<<"-", "-", "d", "o", "m", "a", "i", "n">>, <<" ", "a", ".", "i", "o", ",", " ", ",", "b", ".", "i", "o", " ">>, flag, HugeNumeral>> :
            flag \in {<<"-", "-", "s", "c", "o", "r", "e">>, <<"-", "s">>, <<"-", "-", "o", "u", "t", "p", "u", "t">>}}

\* paths the check of lines 634-660 is called on, with what they are: one
\* of the documented attack patterns, an absolute path, a path whose decoded
\* and normalized form has "..", a backslash or an encoded "..", one of the
\* two paths documented as accepted, another path whose decoded form stays
\* inside, or a path with a malformed escape
PathTable ==
  {
    [text |-> <<".", ".", "/", ".", ".", "/", ".", ".", "/", "e", "t", "c", "/", "p", "a", "s", "s", "w", "d">>,
     kind |-> "documented"],
    [text |-> <<".", ".", "\\", ".", ".", "\\", ".", ".", "\\", "w", "i", "n", "d", "o", "w", "s", "\\", "s", "y", "s", "t", "e", "m", "3", "2">>,
     kind |-> "documented"],
    [text |-> <<"%", "2", "e", "%", "2", "e", "%", "2", "f", "%", "2", "e", "%", "2", "e", "%", "2", "f", "%", "2", "e", "%", "2", "e", "%", "2", "f", "e", "t", "c", "%", "2", "f", "p", "a", "s", "s", "w", "d">>,
     kind |-> "documented"],
    [text |-> <<".", ".", ".", ".", "/", "/", ".", ".", ".", ".", "/", "/", ".", ".", ".", ".", "/", "/", "e", "t", "c", "/", "p", "a", "s", "s", "w", "d">>,
     kind |-> "documented"],
    [text |-> <<".", ".", "%", "2", "5", "2", "f", ".", ".", "%", "2", "5", "2", "f", ".", ".", "%", "2", "5", "2", "f", "e", "t", "c", "%", "2", "5", "2", "f", "p", "a", "s", "s", "w", "d">>,
     kind |-> "documented"],
    [text |-> <<"/", "e", "t", "c", "/", "p", "a", "s", "s", "w", "d">>,
     kind |-> "absolute"],
    [text |-> <<"/">>,
     kind |-> "absolute"],
    [text |-> <<".", "/">>,
     kind |-> "accepted"],
    [text |-> <<"r", "e", "p", "o", "r", "t", "s", "/">>,
     kind |-> "accepted"],
    [text |-> <<"%", "2", "e", ".", "/", "x">>,
     kind |-> "traversal"],
    [text |-> <<"a", "%", "5", "c", "b">>,
     kind |-> "traversal"],
    [text |-> <<"a", "/", ".", ".", "/", ".", ".", "/", "x">>,
     kind |-> "traversal"],
    [text |-> <<"%", "2", "5", "2", "e", "%", "2", "5", "2", "e", "/", "x">>,
     kind |-> "traversal"],
    [text |-> <<"%", "2", "E", "%", "2", "E", "%", "2", "F", "x">>,
     kind |-> "traversal"],
    [text |-> <<"a", "/", "b", "/", ".", ".", "/", "c">>,
     kind |-> "inside"],
    [text |-> <<"a", "/", ".", "/", "b">>,
     kind |-> "inside"],
    [text |-> <<"a", "%", "2", "f", "b", "/", ".", ".", "/", ".", ".">>,
     kind |-> "inside"],
    [text |-> <<"%">>,
     kind |-> "malformed"],
    [text |-> <<"a", "%", "z", "z">>,
     kind |-> "malformed"] }

PathInputs == {p.text : p \in PathTable}

\* the calls of single functions
Calls ==
  {[fn |-> "escapeHtml", arg |-> a] : a \in EscapeInputs}
    \cup {[fn |-> "isValidDomain", arg |-> a] : a \in DomainInputs}
    \cup {[fn |-> "isValidUrl", arg |-> a] : a \in UrlInputs}
    \cup {[fn |-> "formatHtmlOutput", arg |-> a] : a \in HtmlInputs}
    \cup {[fn |-> "makeRequest", arg |-> a] : a \in RequestInputs}
    \cup {[fn |-> "scanSingleDomain", arg |-> a] : a \in ScanInputs}
    \cup {[fn |-> "getGradeColor", arg |-> a] : a \in GradeInputs}
    \cup {[fn |-> "isPathTraversal", arg |-> a] : a \in PathInputs}

\* the module is imported: main has not been called
NotRunning ==
  /\ domains = <<>>
  /\ passingScore = 100
  /\ reportFormat = "pretty"
  /\ outputPath = DefaultOutput
  /\ failOnIssue = FALSE
  /\ pc = "imported"
  /\ idx = 1
  /\ results = <<>>
  /\ hasFailures = FALSE
  /\ hasErrors = FALSE
  /\ inFlight = 0
  /\ responses = <<>>
  /\ log = <<>>
  /\ dirs = {DefaultOutput}
  /\ files = <<>>
  /\ clock = 0
  /\ summary = <<>>
  /\ exitCode = -1

\* the calls of parseArgs
ArgCalls == {[fn |-> "parseArgs", arg |-> a] : a \in ArgVectors}

FunctionInit ==
  /\ NotRunning
  /\ (call \in Calls \/ call \in ArgCalls)
  /\ ret = NoReturn
  /\ req = NoRequest

EscapeHtmlCall ==
  /\ call.fn = "escapeHtml"
  /\ ret = NoReturn
  /\ ret' = escapeHtml(call.arg)
  /\ UNCHANGED <<call, run, req>>

IsValidDomainCall ==
  /\ call.fn = "isValidDomain"
  /\ ret = NoReturn
  /\ ret' = Returned(isValidDomainValue(call.arg))
  /\ UNCHANGED <<call, run, req>>

IsValidUrlCall ==
  /\ call.fn = "isValidUrl"
  /\ ret = NoReturn
  /\ ret' = Returned(isValidUrl(call.arg))
  /\ UNCHANGED <<call, run, req>>

FormatHtmlOutputCall ==
  /\ call.fn = "formatHtmlOutput"
  /\ ret = NoReturn
  /\ ret' = formatHtmlOutput(call.arg.result, call.arg.passingScore)
  /\ UNCHANGED <<call, run, req>>

MakeRequestCall ==
  /\ call.fn = "makeRequest"
  /\ ret = NoReturn
  /\ ret' = makeRequest(call.arg.url, call.arg.method)
  /\ UNCHANGED <<call, run, req>>

ScanRequestCall ==
  /\ call.fn = "scanSingleDomain"
  /\ ret = NoReturn
  /\ ret' = scanRequest(call.arg)
  /\ UNCHANGED <<call, run, req>>

\* decodeURIComponent throws URIError on a malformed escape (line 639)
IsPathTraversalCall ==
  /\ call.fn = "isPathTraversal"
  /\ ret = NoReturn
  /\ ret' = IF isPathTraversal(call.arg) = "URIError" THEN Thrown("URIError")
            ELSE Returned(isPathTraversal(call.arg) = "dangerous")
  /\ UNCHANGED <<call, run, req>>

GetGradeColorCall ==
  /\ call.fn = "getGradeColor"
  /\ ret = NoReturn
  /\ ret' = Returned(getGradeColor(call.arg))
  /\ UNCHANGED <<call, run, req>>

ParseArgsCall ==
  /\ call.fn = "parseArgs"
  /\ ret = NoReturn
  /\ ret' = parseArgs(call.arg)
  /\ UNCHANGED <<call, run, req>>

FunctionNext ==
  \/ EscapeHtmlCall
  \/ IsValidDomainCall
  \/ IsValidUrlCall
  \/ FormatHtmlOutputCall
  \/ MakeRequestCall
  \/ ScanRequestCall
  \/ IsPathTraversalCall
  \/ GetGradeColorCall
  \/ ParseArgsCall

FunctionSpec == FunctionInit /\ [][FunctionNext]_vars

(***************************************************************************)
(* makeRequest (src/safepi.js:87-155): the events of one request.  The      *)
(* handlers run one at a time, in the order in which Node delivers the      *)
(* events; sizes are counted in bytes.                                      *)
(***************************************************************************)
\* the size of the largest response body accepted (line 117)
MAX_RESPONSE_SIZE == 1024 * 1024

\* the most data events of one response
MaxChunks == 3

\* chunk.length of a data event
ChunkSizes == {1, 524288, 1048576}

Resolved(value) == [kind |-> "resolve", value |-> value]

\* mutant: a later resolve or reject replaces the outcome
settleLast(current, outcome) == outcome

\* resolve(...) or reject(...) of the promise of line 88: a promise settles once
settle(current, outcome) == IF current = NoReturn THEN outcome ELSE current

\* the test of line 121
overLimit(totalSize) == totalSize > MAX_RESPONSE_SIZE

\* the errors of a request event "error"
RequestErrorMessages ==
  { "socket hang up",
    "getaddrinfo ENOTFOUND observatory-api.mdn.mozilla.net" }

\* the calls of makeRequest that reach https.request
ConnectingRequests ==
  {a \in RequestInputs : makeRequest(a.url, a.method).kind = "connect"}

\* req.end() has been called (line 153)
RequestInit ==
  /\ NotRunning
  /\ call \in {[fn |-> "makeRequest", arg |-> a] : a \in ConnectingRequests}
  /\ ret = NoReturn
  /\ req = [phase |-> "sent", statusCode |-> 0, totalSize |-> 0, body |-> 0,
            chunks |-> 0, destroyed |-> FALSE, erred |-> FALSE, timedOut |-> FALSE]

\* the callback of https.request (lines 115-139): the response head has arrived
ResponseBegins ==
  /\ req.phase = "sent"
  /\ \E status \in StatusCodes :
       req' = [req EXCEPT !.phase = "response", !.statusCode = status]
  /\ UNCHANGED <<call, ret, run>>

\* res.on("data") (lines 119-127)
DataArrives ==
  /\ req.phase = "response"
  /\ req.chunks < MaxChunks
  /\ \E length \in ChunkSizes :
       LET totalSize == req.totalSize + length
       IN IF overLimit(totalSize)
          THEN /\ req' = [req EXCEPT !.totalSize = totalSize, !.destroyed = TRUE,
                                     !.chunks = @ + 1]
               /\ ret' = settle(ret, Rejected("Response too large"))
          ELSE /\ req' = [req EXCEPT !.totalSize = totalSize, !.body = @ + length,
                                     !.chunks = @ + 1]
               /\ ret' = ret
  /\ UNCHANGED <<call, run>>

\* res.on("end") (lines 129-136); JSON.parse throws on the empty string
ResponseEnds ==
  /\ req.phase = "response"
  /\ \E parses \in (IF req.body = 0 THEN {FALSE} ELSE BOOLEAN) :
       ret' = settle(ret, IF parses
                          THEN Resolved([statusCode |-> req.statusCode, size |-> req.body])
                          ELSE Rejected("Invalid JSON response"))
  /\ req' = [req EXCEPT !.phase = "ended"]
  /\ UNCHANGED <<call, run>>

\* req.on("error") (lines 141-143)
RequestErrors ==
  /\ req.phase # "none"
  /\ ~req.erred
  /\ \E message \in RequestErrorMessages : ret' = settle(ret, Rejected(message))
  /\ req' = [req EXCEPT !.erred = TRUE]
  /\ UNCHANGED <<call, run>>

\* req.on("timeout") (lines 145-148)
RequestTimesOut ==
  /\ req.phase # "none"
  /\ ~req.timedOut
  /\ ret' = settle(ret, Rejected("Request timeout"))
  /\ req' = [req EXCEPT !.timedOut = TRUE, !.destroyed = TRUE]
  /\ UNCHANGED <<call, run>>

RequestNext ==
  \/ ResponseBegins
  \/ DataArrives
  \/ ResponseEnds
  \/ RequestErrors
  \/ RequestTimesOut

RequestSpec == RequestInit /\ [][RequestNext]_vars

(***************************************************************************)
(* Properties.                                                             *)
(***************************************************************************)
Positions == 1..Len(domains)

Done == pc = "done"

\* the number of requests sent for the entry at position i
RequestsFor(i) ==
  Cardinality({k \in 1..Len(log) : log[k] = Event("request", i)})

AnyFailure == \E i \in 1..Len(results) : ~results[i].success

AnyBelowThreshold ==
  \E i \in 1..Len(results) : results[i].success /\ ~results[i].passed

\* C1: when the run is over the exit code is 1 if some result is a Failure,
\* or if --fail is set and some Success did not pass, and 0 otherwise
C1_ExitCodePolicy ==
  Done =>
    /\ exitCode \in {0, 1}
    /\ exitCode # 0 <=> (AnyFailure \/ (failOnIssue /\ AnyBelowThreshold))

\* C1 witness: a run without --fail that ends with exit code 1
C1_Witness == Done /\ ~failOnIssue /\ AnyFailure /\ exitCode = 1

\* every entry was scanned, and where the scan did not succeed the API call
\* had failed: rejected, a status other than 200, or an error in the payload
OnlyApiErrors ==
  \A i \in 1..Len(results) :
    \/ results[i].success
    \/ responses[i] # NoResponse /\ ~IsClean(responses[i])

\* C2, as the README states it: without --fail the exit code is 0, also when
\* scans score below the threshold or meet a network or API error
C2_ExitZeroWithoutFail ==
  (Done /\ ~failOnIssue /\ OnlyApiErrors) => exitCode = 0

\* C3, as claimed for the requests of a run: no two requests follow each
\* other in the log without a delay between them, and there is no delay
\* after the last position
C3_DelayBetweenRequests ==
  /\ \A k, m \in 1..Len(log) :
       (k < m /\ log[k].type = "request" /\ log[m].type = "request")
         => \E d \in (k + 1)..(m - 1) : log[d].type = "delay"
  /\ \A k \in 1..Len(log) : log[k].type = "delay" => log[k].pos < Len(domains)

\* C4: an entry that fails isValidDomain gets the Failure "Invalid domain
\* format", and no request is ever sent for it
C4_InvalidDomainRejected ==
  \A i \in Positions :
    ~domainIsValid[domains[i]] =>
      /\ RequestsFor(i) = 0
      /\ i <= Len(results) =>
           /\ results[i] = Failure(domains[i], "Invalid domain format")
           /\ responses[i] = NoResponse

\* C4 witness: a finished run that has rejected an entry
C4_Witness ==
  /\ Done
  /\ \E i \in Positions :
       ~domainIsValid[domains[i]] /\ results[i].error = "Invalid domain format"

\* the payload of a response carries an error field, whatever its value
CarriesErrorField(o) == o.data.t = "object" /\ o.data.error # Undefined

\* the payload of a response carries an error field with a truthy value
CarriesError(o) == o.data.t = "object" /\ Truthy(o.data.error)

\* C5, as claimed: a Failure with a reason whenever the call is rejected, the
\* status is not 200 or the payload carries an error field; a Success only
\* for status 200 and a payload without error field
C5_FailureOnAnyErrorField ==
  \A i \in 1..Len(results) :
    LET o == responses[i]
    IN o # NoResponse =>
         /\ (o.kind = "reject" \/ o.statusCode # StatusOk \/ CarriesErrorField(o))
              => (~results[i].success /\ results[i].error # "")
         /\ results[i].success
              => (o.kind = "resolve" /\ o.statusCode = StatusOk /\ ~CarriesErrorField(o))

\* C5, amended: the same with "an error field whose value is truthy" (a
\* non-empty message) in place of "an error field"
C5_FailureOnError ==
  \A i \in 1..Len(results) :
    LET o == responses[i]
    IN o # NoResponse =>
         /\ (o.kind = "reject" \/ o.statusCode # StatusOk \/ CarriesError(o))
              => (~results[i].success /\ results[i].error # "")
         /\ results[i].success
              => (o.kind = "resolve" /\ o.statusCode = StatusOk /\ ~CarriesError(o))

\* C5 witness: a 200 response whose payload carries an error has become a
\* Failure, and one whose error field is null a Success
C5_Witness ==
  /\ \E i \in 1..Len(results) :
       /\ responses[i] # NoResponse
       /\ responses[i].kind = "resolve"
       /\ responses[i].statusCode = StatusOk
       /\ CarriesError(responses[i])
       /\ results[i] = Failure(domains[i], "Scan failed")
  /\ \E i \in 1..Len(results) :
       /\ responses[i] # NoResponse
       /\ responses[i].kind = "resolve"
       /\ CarriesErrorField(responses[i])
       /\ results[i].success

\* C6: at most one request is sent for each entry of the list
C6_NoRetry == \A i \in Positions : RequestsFor(i) <= 1

\* C6 witness: a finished run in which a request timed out
C6_Witness ==
  /\ Done
  /\ \E i \in Positions :
       /\ results[i] = Failure(domains[i], "Request timeout")
       /\ RequestsFor(i) = 1

\* C7: every run ends with one result for each entry and, for a list of
\* more than one entry, with the summary printed
C7_RunCompletes ==
  <>(/\ Done
     /\ Len(results) = Len(domains)
     /\ Len(domains) > 1 => summary # <<>>)

\* C7 witness: a finished run of several entries, the first one rejected and
\* a later one erred, with its summary
C7_Witness ==
  /\ Done
  /\ Len(domains) > 1
  /\ summary # <<>>
  /\ results[1] = Failure(domains[1], "Invalid domain format")
  /\ \E i \in 2..Len(results) : ~results[i].success /\ responses[i] # NoResponse

\* C8: at most one request is in flight; while one is, the results of all
\* earlier positions are in the list; and whatever was rendered or written
\* for an earlier position precedes a request in the log
C8_Sequential ==
  /\ inFlight <= 1
  /\ inFlight = 1 => (pc = "request" /\ Len(results) = idx - 1)
  /\ \A k, m \in 1..Len(log) :
       (/\ log[k].type = "request"
        /\ log[m].type \in {"render", "write"}
        /\ log[m].pos < log[k].pos) => m < k

\* C8 witness: a request in flight for the second entry, the first rendered
C8_Witness ==
  /\ inFlight = 1
  /\ idx = 2
  /\ \E m \in 1..Len(log) : log[m].type \in {"render", "write"} /\ log[m].pos = 1

\* the number of entries the loop has dealt with
Processed == IF pc = "rateLimit" THEN idx ELSE idx - 1

ResultsInOrder ==
  /\ Len(results) = Processed
  /\ \A i \in 1..Len(results) : results[i].domain = domains[i]
  /\ Done => Len(results) = Len(domains)

ResultsOnlyAppended ==
  /\ Len(results') >= Len(results)
  /\ SubSeq(results', 1, Len(results)) = results

\* C9: after k entries the list holds k results, the i-th for the i-th
\* entry; a step only appends to it; at the end it is as long as the list
C9_ResultsAppendOnly == []ResultsInOrder /\ [][ResultsOnlyAppended]_vars

\* C9 witness: a finished run over a list with a repeated entry
C9_Witness ==
  /\ Done
  /\ Len(results) > 1
  /\ domains[1] = domains[Len(domains)]
  /\ results[1].domain = results[Len(results)].domain

\* C10: a Success has passed exactly when its score is a number that is at
\* least the configured threshold, and has the fields domain, success,
\* score, passingScore, passed; a Failure has domain, success, error
C10_ResultShape ==
  \A i \in 1..Len(results) :
    LET r == results[i]
    IN IF r.success
       THEN /\ DOMAIN r = {"domain", "success", "score", "passingScore", "passed"}
            /\ r.passingScore = passingScore
            /\ r.score = responses[i].data.score
            /\ r.passed <=> (r.score.t = "number" /\ r.score.v >= passingScore)
       ELSE /\ DOMAIN r = {"domain", "success", "error"}
            /\ r.error # ""

\* C10 witness: a negative score that has not passed, and a score equal to
\* the threshold that has
C10_Witness ==
  /\ \E i \in 1..Len(results) :
       results[i].success /\ results[i].score = JsNumber(-1) /\ ~results[i].passed
  /\ \E i \in 1..Len(results) :
       results[i].success /\ results[i].score = JsNumber(passingScore) /\ results[i].passed

\* the html step of position i has run its path check and the check has
\* flagged the output path
Flagged(i) ==
  /\ reportFormat = "html"
  /\ pathCheck[outputPath] = "dangerous"
  /\ i <= Len(results)
  /\ responses[i] # NoResponse
  /\ IsClean(responses[i])

\* C11, as claimed: once the check has flagged the output path the run is
\* aborted: no request is sent for a later position, no later entry gets a
\* result, and the exit code is 1
C11_TraversalAbortsRun ==
  \A i \in 1..Len(results) :
    Flagged(i) =>
      /\ \A k \in 1..Len(log) : log[k].type = "request" => log[k].pos <= i
      /\ Len(results) = i
      /\ Done => exitCode = 1

\* C11, amended: the entry whose html step was flagged gets a Failure with
\* the reason of the check; the run goes on, so that at its end every entry
\* has a result and every valid entry has had its request; the exit code is 1
C11_TraversalFailsDomain ==
  /\ \A i \in 1..Len(results) :
       Flagged(i) => results[i] = Failure(domains[i], TraversalMessage)
  /\ (Done /\ \E i \in 1..Len(results) : Flagged(i)) =>
       /\ exitCode = 1
       /\ Len(results) = Len(domains)
       /\ \A j \in Positions : domainIsValid[domains[j]] => RequestsFor(j) = 1

\* C11 witness: a finished run whose first entry was flagged and whose
\* second entry was requested all the same
C11_Witness ==
  /\ Done
  /\ Len(domains) > 1
  /\ Flagged(1)
  /\ results[1].error = TraversalMessage
  /\ RequestsFor(2) = 1
  /\ exitCode = 1

\* C12: in html mode with an output path that the check flags, no directory
\* is created and no file is written, at any point of the run
C12_NoEffectBeforeCheck ==
  (reportFormat = "html" /\ pathCheck[outputPath] = "dangerous") =>
    /\ dirs = {DefaultOutput}
    /\ files = <<>>
    /\ \A k \in 1..Len(log) : log[k].type # "write"

\* C12 witness: a finished run in which the check has flagged the path for
\* every entry, the directory being absent
C12_Witness ==
  /\ Done
  /\ Len(domains) > 1
  /\ outputPath \notin dirs
  /\ \A i \in Positions : Flagged(i)

\* C13, as claimed: the report files written in one run are all different
C13_DistinctReportFiles ==
  \A i, j \in 1..Len(files) : i # j => files[i] # files[j]

SpecialChars == {"&", "<", ">", "\"", "'"}

EscapeReturned == call.fn = "escapeHtml" /\ ret # NoReturn

\* C15, as claimed: for a string that holds one of the five characters the
\* result of escapeHtml holds none of them
C15_NoSpecialLiteral ==
  (EscapeReturned /\ call.arg.t = "chars" /\ Range(call.arg.v) \cap SpecialChars # {}) =>
    /\ ret.kind = "return"
    /\ Range(ret.value) \cap SpecialChars = {}

\* e stands in s at position i
StandsAt(s, i, e) == i + Len(e) - 1 <= Len(s) /\ SubSeq(s, i, i + Len(e) - 1) = e

\* an "&" at position i of s starts one of the five entities
StartsEntity(s, i) ==
  \E e \in {EntityAmp, EntityLt, EntityGt, EntityQuot, EntityApos} : StandsAt(s, i, e)

\* C15, amended: the result of escapeHtml on a string holds no <, >, " or ',
\* and each & in it is the first character of one of the five entities
C15_NoMarkupLiteral ==
  (EscapeReturned /\ call.arg.t = "chars") =>
    /\ ret.kind = "return"
    /\ Range(ret.value) \cap (SpecialChars \ {"&"}) = {}
    /\ \A i \in 1..Len(ret.value) : ret.value[i] = "&" => StartsEntity(ret.value, i)

\* C15 witness: a string of <, >, " and ' has been escaped
C15_Witness ==
  /\ EscapeReturned
  /\ call.arg = JsChars(<<"<", ">", "\"", "'">>)
  /\ ret.kind = "return"
  /\ Len(ret.value) > 4

\* the entity of one character
EntityOf(c) ==
  CASE c = "&" -> EntityAmp
    [] c = "<" -> EntityLt
    [] c = ">" -> EntityGt
    [] c = "\"" -> EntityQuot
    [] c = "'" -> EntityApos
    [] OTHER -> <<c>>

RECURSIVE EachEscaped(_)
EachEscaped(s) == IF s = <<>> THEN <<>> ELSE EntityOf(s[1]) \o EachEscaped(Tail(s))

\* the five entities decoded, once, from left to right
RECURSIVE DecodeOnce(_)
DecodeOnce(s) ==
  IF s = <<>> THEN <<>>
  ELSE IF s[1] = "&" /\ StartsEntity(s, 1)
       THEN LET c == CHOOSE x \in SpecialChars : StandsAt(s, 1, EntityOf(x))
            IN <<c>> \o DecodeOnce(SubSeq(s, Len(EntityOf(c)) + 1, Len(s)))
       ELSE <<s[1]>> \o DecodeOnce(Tail(s))

\* C16: escapeHtml of a string is the string with each of the five
\* characters replaced by its own entity, and decoding the entities once
\* gives the string back; null, undefined and "" give "" and nothing is thrown
C16_EscapeRoundTrip ==
  EscapeReturned =>
    /\ call.arg \in {Undefined, JsNull, JsChars(<<>>)} => ret = Returned(<<>>)
    /\ call.arg.t = "chars" =>
         /\ ret.kind = "return"
         /\ ret.value = EachEscaped(call.arg.v)
         /\ DecodeOnce(ret.value) = call.arg.v

\* C16 witness: the text of an entity has been escaped, its ampersand only
C16_Witness ==
  /\ EscapeReturned
  /\ call.arg = JsChars(EntityLt)
  /\ ret = Returned(<<"&", "a", "m", "p", ";", "l", "t", ";">>)

DomainReturned == call.fn = "isValidDomain" /\ ret # NoReturn

\* s has an empty label: a dot at its start or end, or two dots in a row
HasEmptyLabel(s) ==
  /\ Len(s) > 0
  /\ \/ s[1] = "."
     \/ s[Len(s)] = "."
     \/ \E i \in 1..(Len(s) - 1) : s[i] = "." /\ s[i + 1] = "."

\* s has a label of more than 63 characters: 64 in a row without a dot
HasLongLabel(s) ==
  \E i \in 1..(Len(s) - 63) : \A j \in i..(i + 63) : s[j] # "."

HasForeignChar(s) == \E i \in 1..Len(s) : s[i] \notin Alnum \cup {".", "-"}

DeniedNames ==
  { <<"l", "o", "c", "a", "l", "h", "o", "s", "t">>,
    <<"1", "2", "7", ".", "0", ".", "0", ".", "1">>,
    <<"0", ".", "0", ".", "0", ".", "0">> }

HoldsDeniedName(s) == \E p \in DeniedNames : includes(toLowerCase(s), p)

AcceptedExamples ==
  { <<"e", "x", "a", "m", "p", "l", "e", ".", "c", "o", "m">>,
    <<"s", "u", "b", ".", "e", "x", "a", "m", "p", "l", "e", ".", "c", "o", "m">>,
    <<"e", "x", "a", "m", "p", "l", "e", "-", "s", "i", "t", "e", ".", "c", "o", "m">>,
    <<"1", "2", "3", ".", "c", "o", "m">> }

\* C17: isValidDomain is false for a value that is no string, for the empty
\* string, for a string of more than 253 characters, with an empty label,
\* with a label of more than 63 characters, with a character outside
\* [A-Za-z0-9.-], or that holds localhost, 127.0.0.1 or 0.0.0.0 in any
\* letter case; it is true for the four example names
C17_DomainRejections ==
  DomainReturned =>
    /\ ret.kind = "return"
    /\ call.arg.t # "chars" => ret.value = FALSE
    /\ call.arg.t = "chars" =>
         LET s == call.arg.v
         IN /\ (\/ Len(s) = 0
                \/ Len(s) > MaxDomainLength
                \/ HasEmptyLabel(s)
                \/ HasLongLabel(s)
                \/ HasForeignChar(s)
                \/ HoldsDeniedName(s)) => ret.value = FALSE
            /\ s \in AcceptedExamples => ret.value = TRUE

\* C17 witness: a name within the length limit, of letters only, one of
\* its labels 64 characters long, has been rejected
C17_Witness ==
  /\ DomainReturned
  /\ call.arg.t = "chars"
  /\ Len(call.arg.v) <= MaxDomainLength
  /\ ~HasForeignChar(call.arg.v)
  /\ ~HasEmptyLabel(call.arg.v)
  /\ HasLongLabel(call.arg.v)
  /\ ret = Returned(FALSE)

HtmlReturned == call.fn = "formatHtmlOutput" /\ ret # NoReturn

\* the value is a string that the URL standard reads as a well-formed http
\* or https URL
WellFormedWebUrl(value) ==
  /\ value.t = "chars"
  /\ \E u \in UrlTable : u.text = value.v /\ u.kind = "web"

HasHref(doc) == \E i \in 1..Len(doc) : doc[i].slot = "href"

\* C18: the document has the link exactly when details_url is a well-formed
\* http or https URL, and then only one; isValidUrl is true exactly for
\* those URLs; absent, empty, malformed and other-scheme values give no href
C18_LinkOnlyForWebUrl ==
  /\ (HtmlReturned /\ ret.kind = "return") =>
       /\ HasHref(ret.value) <=> WellFormedWebUrl(call.arg.result.details_url)
       /\ Cardinality({i \in 1..Len(ret.value) : ret.value[i].slot = "href"}) <= 1
  /\ (call.fn = "isValidUrl" /\ ret # NoReturn) =>
       (ret.value <=> WellFormedWebUrl(call.arg))

\* C18 witness: a document without link for a javascript: URL
C18_Witness ==
  /\ HtmlReturned
  /\ ret.kind = "return"
  /\ call.arg.result.details_url.t = "chars"
  /\ StandsAt(toLowerCase(call.arg.result.details_url.v), 1,
              <<"j", "a", "v", "a", "s", "c", "r", "i", "p", "t", ":">>)
  /\ ~HasHref(ret.value)

\* C19, as claimed: no part of the document that comes from the host or
\* from a field of the payload holds a literal <, > or "
C19_AllValuesEscaped ==
  (HtmlReturned /\ ret.kind = "return") =>
    \A i \in 1..Len(ret.value) :
      ret.value[i].origin # "template" =>
        Range(ret.value[i].text) \cap {"<", ">", "\""} = {}

\* the request goes to the API host, and its path is the scan path followed
\* by the domain, URL-encoded, as the value of the one query parameter host
TargetsApiWith(options, hostDomain) ==
  /\ options.hostname = ApiHost
  /\ options.port = JsNumber(DefaultHttpsPort)
  /\ options.method = "POST"
  /\ StandsAt(options.path, 1, ApiScanPath)
  /\ LET value == From(options.path, Len(ApiScanPath) + 1)
     IN /\ Range(value) \cap {"&", "=", "?", "#", "/"} = {}
        /\ decodeSucceeds(value)
        /\ decodeURIComponent(value) = hostDomain

\* C20: the request scanSingleDomain sends for a domain goes to the API host
\* with the domain as the URL-encoded host parameter; makeRequest on a URL
\* with another host rejects with "Invalid API endpoint" and connects only
\* to the API host
C20_FixedApiHost ==
  /\ (call.fn = "scanSingleDomain" /\ ret # NoReturn /\ ret.kind # "return") =>
       /\ ret.kind = "connect"
       /\ TargetsApiWith(ret.options, call.arg)
  /\ (call.fn = "makeRequest" /\ ret # NoReturn) =>
       LET u == CHOOSE x \in UrlTable : x.text = call.arg.url
       IN /\ (u.kind # "malformed" /\ u.host # ApiHost) =>
               ret = Rejected("Invalid API endpoint")
          /\ ret.kind = "connect" =>
               (u.host = ApiHost /\ ret.options.hostname = ApiHost)

\* C20 witness: a URL whose host only begins with the API host has been
\* rejected
C20_Witness ==
  /\ call.fn = "makeRequest"
  /\ StandsAt(call.arg.url, 9, ApiHost \o <<".", "e", "v", "i", "l">>)
  /\ ret = Rejected("Invalid API endpoint")

\* C21: however the events of a response interleave, a response larger than
\* MAX_RESPONSE_SIZE destroys the connection and the call is rejected, the
\* body kept never exceeds the limit, and the outcome of the call is that of
\* the first event that settled it: no later event changes it
C21_ResponseEvents ==
  /\ [](req.phase # "none" =>
          /\ req.totalSize > MAX_RESPONSE_SIZE => req.destroyed /\ ret.kind = "reject"
          /\ req.body <= MAX_RESPONSE_SIZE)
  /\ [][ret # NoReturn => ret' = ret]_vars

\* a response of exactly the limit plus one more byte was rejected as too
\* large, and the timeout came afterwards
C21_Witness ==
  /\ req.phase = "response"
  /\ req.totalSize = MAX_RESPONSE_SIZE + 1
  /\ req.body = MAX_RESPONSE_SIZE
  /\ req.timedOut
  /\ ret = Rejected("Response too large")

ArgsReturned == call.fn = "parseArgs" /\ ret.kind = "return"

ArgsExited == call.fn = "parseArgs" /\ ret.kind = "exit"

HelpFlags == {<<"-", "h">>, <<"-", "-", "h", "e", "l", "p">>}

ScoreFlags == {<<"-", "s">>, <<"-", "-", "s", "c", "o", "r", "e">>}

ReportFlags == {<<"-", "r">>, <<"-", "-", "r", "e", "p", "o", "r", "t">>}

FailFlags == {<<"-", "f">>, <<"-", "-", "f", "a", "i", "l">>}

BooleanFlags == {<<"-", "-", "h", "i", "d", "d", "e", "n">>, <<"-", "-", "r", "e", "s", "c", "a", "n">>}

ValueFlags ==
  {<<"-", "d">>, <<"-", "-", "d", "o", "m", "a", "i", "n">>, <<"-", "o">>, <<"-", "-", "o", "u", "t", "p", "u", "t">>}
    \cup ScoreFlags \cup ReportFlags \cup BooleanFlags

KnownFlags == HelpFlags \cup ValueFlags \cup FailFlags

\* the option named by flags is not on the command line
NotGiven(flags) == \A i \in 1..Len(call.arg) : call.arg[i] \notin flags

DomainsWellFormed(ds) ==
  /\ Len(ds) > 0
  /\ \A k \in 1..Len(ds) : Len(ds[k]) > 0 /\ trim(ds[k]) = ds[k]

OptionsWellFormed(options) ==
  /\ DomainsWellFormed(options.domains)
  /\ options.report \in {<<"t", "e", "x", "t">>, <<"p", "r", "e", "t", "t", "y">>, <<"h", "t", "m", "l">>}
  /\ {options.fail, options.hidden, options.rescan} \subseteq BOOLEAN
  /\ NotGiven(ScoreFlags) => options.score = JsNumber(100)
  /\ NotGiven(ReportFlags) => options.report = <<"p", "r", "e", "t", "t", "y">>
  /\ NotGiven({<<"-", "o">>, <<"-", "-", "o", "u", "t", "p", "u", "t">>}) => options.output = DefaultOutput
  /\ NotGiven(FailFlags) => options.fail = FALSE
  /\ NotGiven({<<"-", "-", "h", "i", "d", "d", "e", "n">>}) => options.hidden = TRUE
  /\ NotGiven({<<"-", "-", "r", "e", "s", "c", "a", "n">>}) => options.rescan = TRUE

RECURSIVE OptionPositions(_, _)
OptionPositions(args, i) ==
  IF i > Len(args) THEN {}
  ELSE {i} \cup
       OptionPositions(args,
         IF args[i] \in ValueFlags THEN i + 2
         ELSE IF args[i] \in FailFlags /\ i < Len(args)
                 /\ ~startsWith(args[i + 1], <<"-">>) THEN i + 2
         ELSE i + 1)

IsTrueOrFalse(value) == toLowerCase(value) \in {<<"t", "r", "u", "e">>, <<"f", "a", "l", "s", "e">>}

\* an optional sign and decimal digits, nothing else
IsNumeral(value) ==
  LET unsigned == IF value # <<>> /\ value[1] \in {"+", "-"} THEN Tail(value) ELSE value
  IN unsigned # <<>> /\ \A k \in 1..Len(unsigned) : unsigned[k] \in Range(DigitChars)

\* white space, an optional sign, then at least one decimal digit
HasLeadingInteger(value) ==
  LET s == trimStart(value)
      unsigned == IF s # <<>> /\ s[1] \in {"+", "-"} THEN Tail(s) ELSE s
  IN unsigned # <<>> /\ unsigned[1] \in Range(DigitChars)

\* the argument vector contains one of the mistakes of claim C23
ContainsMistake(args) ==
  \/ \E i \in 1..Len(args) : startsWith(args[i], <<"-">>) /\ args[i] \notin KnownFlags
  \/ args # <<>> /\ args[Len(args)] \in ValueFlags
  \/ \E i \in 1..(Len(args) - 1) :
       \/ args[i] \in ScoreFlags /\ ~IsNumeral(args[i + 1])
       \/ args[i] \in ReportFlags /\ args[i + 1] \notin {<<"t", "e", "x", "t">>, <<"p", "r", "e", "t", "t", "y">>, <<"h", "t", "m", "l">>}
       \/ args[i] \in BooleanFlags /\ ~IsTrueOrFalse(args[i + 1])
       \/ args[i] \in FailFlags /\ ~startsWith(args[i + 1], <<"-">>)
            /\ ~IsTrueOrFalse(args[i + 1])

\* the argument read as an option at position i is a mistake
MistakeAt(args, i) ==
  \/ args[i] \notin KnownFlags
  \/ args[i] \in ValueFlags /\ i = Len(args)
  \/ /\ i < Len(args)
     /\ \/ args[i] \in ScoreFlags /\ ~HasLeadingInteger(args[i + 1])
        \/ args[i] \in ReportFlags /\ args[i + 1] \notin {<<"t", "e", "x", "t">>, <<"p", "r", "e", "t", "t", "y">>, <<"h", "t", "m", "l">>}
        \/ args[i] \in BooleanFlags /\ ~IsTrueOrFalse(args[i + 1])
        \/ args[i] \in FailFlags /\ ~startsWith(args[i + 1], <<"-">>)
             /\ ~IsTrueOrFalse(args[i + 1])

Mistakes(args) == {i \in OptionPositions(args, 1) : MistakeAt(args, i)}

Helps(args) == {i \in OptionPositions(args, 1) : args[i] \in HelpFlags}

ExitedWithError == ArgsExited /\ ret.code = 1 /\ ret.stderr # ""

HelpShown == ArgsExited /\ ret = Exit(0, "", TRUE)

\* C24 as stated: -h or --help at any position, with any other arguments,
\* prints the usage and exits with code 0
C24_HelpAnywhere ==
  (call.fn = "parseArgs" /\ ret # NoReturn
     /\ \E i \in 1..Len(call.arg) : call.arg[i] \in HelpFlags)
    => HelpShown

\* C24: when -h or --help is read as an option, not taken as the value of
\* the option before it, and no mistake is read before it, the call prints
\* the usage and exits with code 0, whatever follows
C24_HelpReadFirst ==
  (call.fn = "parseArgs" /\ ret # NoReturn /\ Helps(call.arg) # {}
     /\ \A m \in Mistakes(call.arg) : \E h \in Helps(call.arg) : h < m)
    => HelpShown

\* -h after a domain list and before an argument that is no option
C24_Witness ==
  /\ call = [fn |-> "parseArgs", arg |-> <<<<"-", "-", "d", "o", "m", "a", "i", "n">>, <<" ", "a", ".", "i", "o", ",", " ", ",", "b", ".", "i", "o", " ">>, <<"-", "h">>, <<"-", "-", "b", "o", "g", "u", "s">>>>]
  /\ ret = Exit(0, "", TRUE)

Fails(args) == {i \in OptionPositions(args, 1) : args[i] \in FailFlags}

\* --fail at position p stands without a value
BareAt(args, p) == p = Len(args) \/ startsWith(args[p + 1], <<"-">>)

\* what the last --fail of the arguments asks for, FALSE without any
ExpectedFail(args) ==
  IF Fails(args) = {} THEN FALSE
  ELSE LET p == CHOOSE k \in Fails(args) : \A j \in Fails(args) : j <= k
       IN BareAt(args, p) \/ toLowerCase(args[p + 1]) = <<"t", "r", "u", "e">>

\* args with the word true put in after position p
WithTrueAfter(args, p) ==
  SubSeq(args, 1, p) \o <<<<"t", "r", "u", "e">>>> \o SubSeq(args, p + 1, Len(args))

\* C25: the options returned have fail as the last --fail of the arguments
\* asks: true for the bare flag and for a following true, false for a
\* following false, in any letter case, and false without the flag; the bare
\* flag, last or followed by an argument that starts with "-", behaves as
\* --fail true and leaves the following argument to be read as an option
C25_OptionalFailValue ==
  (call.fn = "parseArgs" /\ ret # NoReturn) =>
    /\ ret.kind = "return" => ret.value.fail = ExpectedFail(call.arg)
    /\ \A p \in Fails(call.arg) :
         BareAt(call.arg, p) => ret = parseArgs(WithTrueAfter(call.arg, p))

\* the bare flag before another --fail that takes the value false: the
\* second flag was read as an option and decides
C25_Witness ==
  /\ call = [fn |-> "parseArgs",
             arg |-> <<<<"-", "-", "d", "o", "m", "a", "i", "n">>, <<" ", "a", ".", "i", "o", ",", " ", ",", "b", ".", "i", "o", " ">>, <<"-", "-", "f", "a", "i", "l">>, <<"-", "-", "f", "a", "i", "l">>, <<"f", "a", "l", "s", "e">>>>]
  /\ ArgsReturned
  /\ ret.value.fail = FALSE

\* the colour claim C26 gives a grade in the terminal
TerminalColor(grade) ==
  IF grade.t # "chars" THEN JsString("white")
  ELSE IF grade.v \in {<<"A", "+">>, <<"A">>, <<"A", "-">>} THEN JsString("green")
  ELSE IF grade.v \in {<<"B", "+">>, <<"B">>, <<"B", "-">>} THEN JsString("yellow")
  ELSE IF grade.v \in {<<"C", "+">>, <<"C">>, <<"C", "-">>, <<"D", "+">>, <<"D">>, <<"D", "-">>, <<"F">>} THEN JsString("red")
  ELSE JsString("white")

\* the text of the segment of doc that fills slot
SlotText(doc, slot) == doc[CHOOSE i \in 1..Len(doc) : doc[i].slot = slot].text

\* C26: getGradeColor gives green for A+, A, A-, yellow for B+, B, B-, red
\* for C+ to F and white for every other input; the HTML document has the
\* success colour for a grade that starts with A, the warning colour for one
\* that starts with B and the danger colour otherwise
C26_GradeColors ==
  /\ (call.fn = "getGradeColor" /\ ret # NoReturn) =>
       ret = Returned(TerminalColor(call.arg))
  /\ (HtmlReturned /\ ret.kind = "return") =>
       LET grade == call.arg.result.grade
       IN SlotText(ret.value, "gradeColor") =
            IF grade.t = "chars" /\ startsWith(grade.v, <<"A">>) THEN <<"#", "2", "8", "a", "7", "4", "5">>
            ELSE IF grade.t = "chars" /\ startsWith(grade.v, <<"B">>) THEN <<"#", "f", "f", "c", "1", "0", "7">>
            ELSE <<"#", "d", "c", "3", "5", "4", "5">>

PathKind(text) == (CHOOSE p \in PathTable : p.text = text).kind

InsideCwd(dir) == dir = <<>> \/ dir[1] # <<".", ".">>

\* C29: every HTML report written lies inside the current working directory
C29_WritesInsideCwd ==
  \A k \in 1..Len(files) : InsideCwd(files[k].dir)

\* a ScanResult: a Success with score, threshold and verdict, or a Failure
\* with its reason
IsScanResult(r) ==
  IF r.success
  THEN DOMAIN r = {"domain", "success", "score", "passingScore", "passed"}
  ELSE DOMAIN r = {"domain", "success", "error"}

\* C28: scanSingleDomain returns a ScanResult for the domain it was given
\* whatever the domain, the configuration, the outcome of the API call and
\* the answer of the file system: every entry the loop has gone through has
\* its result, and the run never ends in another way than by its exit code
C28_ScanIsTotal ==
  /\ Len(results) = Len(responses)
  /\ pc \in {"loop", "rateLimit"} => Len(results) = idx - (IF pc = "loop" THEN 1 ELSE 0)
  /\ \A i \in 1..Len(results) :
       /\ results[i].domain = domains[i]
       /\ IsScanResult(results[i])
  /\ exitCode \in {-1, 0, 1}

\* a run of two domains: the body of the first response was no JSON, the
\* body of the second was the JSON value null; both have their Failure
C28_Witness ==
  /\ Done
  /\ Len(domains) = 2
  /\ responses[1] = [kind |-> "reject",
                     message |-> "Invalid JSON response: Unexpected end of JSON input"]
  /\ results[1] = Failure(domains[1], "Invalid JSON response: Unexpected end of JSON input")
  /\ responses[2].kind = "resolve" /\ responses[2].data = JsNull
  /\ ~results[2].success

\* the output step of the entry at position i failed: the path was flagged,
\* or the file system refused to create the directory or to write the file
OutputFailed(i) ==
  \/ pathCheck[outputPath] = "dangerous"
  \/ \E k \in 1..Len(log) : log[k] \in {Event("mkdirRefused", i), Event("writeRefused", i)}

\* C30: in html mode, a clean response whose output step fails gives a
\* Failure, not a Success, whatever its score, and the run then exits with
\* code 1 whatever failOnIssue is
C30_OutputFailureIsFailure ==
  \A i \in 1..Len(results) :
    (reportFormat = "html" /\ IsClean(responses[i]) /\ OutputFailed(i)) =>
      /\ ~results[i].success
      /\ Done => exitCode = 1

\* without --fail, a response whose score meets the threshold, the write was
\* refused: the run has ended with exit code 1
C30_Witness ==
  /\ Done
  /\ ~failOnIssue
  /\ reportFormat = "html"
  /\ Len(domains) = 1
  /\ IsClean(responses[1])
  /\ JsGe(responses[1].data.score, passingScore)
  /\ results[1] = Failure(domains[1], "EACCES: permission denied, open")
  /\ exitCode = 1

====
